---- MODULE Spec2Model ----
(***************************************************************************)
(* Model of calendar-bot's date/time resolution engine                     *)
(* (src/src/calendar_bot/utils/datetime_parser.py).                        *)
(*                                                                         *)
(* Python values are modelled as tagged records: None is [t |-> "None"],   *)
(* an int is [t |-> "int", n |-> ...] and a str is [t |-> "str", s |-> q]  *)
(* with q the sequence of its characters.  A datetime is a record of its   *)
(* wall-clock fields to the minute, plus its UTC offset in minutes when it *)
(* is timezone-aware.  Seconds are not modelled: every datetime the parser *)
(* builds has second 0, so `target <= now` is decided by the minutes.      *)
(***************************************************************************)
EXTENDS Integers, Sequences, FiniteSets, TLC

(***************************************************************************)
(* Python values                                                           *)
(***************************************************************************)
None == [t |-> "None"]
PyInt(n) == [t |-> "int", n |-> n]
PyStr(s) == [t |-> "str", s |-> s]

IsNone(v) == v.t = "None"
IsInt(v) == v.t = "int"
IsStr(v) == v.t = "str"

\* the outcome of a call: a returned value or a raised exception
Return(v) == [raised |-> FALSE, value |-> v]
Raise(exc) == [raised |-> TRUE, exc |-> exc]

(***************************************************************************)
(* str methods and int()                                                   *)
(***************************************************************************)
UpperCase ==
    <<"A", "B", "C", "D", "E", "F", "G", "H", "I", "J", "K", "L", "M",
      "N", "O", "P", "Q", "R", "S", "T", "U", "V", "W", "X", "Y", "Z">>
LowerCase ==
    <<"a", "b", "c", "d", "e", "f", "g", "h", "i", "j", "k", "l", "m",
      "n", "o", "p", "q", "r", "s", "t", "u", "v", "w", "x", "y", "z">>
Digits == <<"0", "1", "2", "3", "4", "5", "6", "7", "8", "9">>

LowerOf ==
    [c \in {UpperCase[i] : i \in DOMAIN UpperCase} |->
        LowerCase[CHOOSE i \in DOMAIN UpperCase : UpperCase[i] = c]]

lower_char(c) == IF c \in DOMAIN LowerOf THEN LowerOf[c] ELSE c

\* str.lower()
lower(s) == [i \in DOMAIN s |-> lower_char(s[i])]

\* str.strip()
strip(s) ==
    LET keep == {i \in DOMAIN s : s[i] # " "}
    IN  IF keep = {} THEN <<>>
        ELSE LET lo == CHOOSE i \in keep : \A j \in keep : i <= j
                 hi == CHOOSE i \in keep : \A j \in keep : j <= i
             IN  SubSeq(s, lo, hi)

\* str.startswith(prefix)
startswith(s, prefix) ==
    /\ Len(prefix) <= Len(s)
    /\ SubSeq(s, 1, Len(prefix)) = prefix

DigitOf ==
    [c \in {Digits[i] : i \in DOMAIN Digits} |->
        (CHOOSE i \in DOMAIN Digits : Digits[i] = c) - 1]

IsDigit(c) == c \in DOMAIN DigitOf
DigitVal(c) == DigitOf[c]

RECURSIVE DigitsVal(_)
DigitsVal(s) ==
    IF s = <<>> THEN 0
    ELSE 10 * DigitsVal(SubSeq(s, 1, Len(s) - 1)) + DigitVal(s[Len(s)])

AllDigits(s) == s # <<>> /\ \A i \in DOMAIN s : IsDigit(s[i])

\* int(str): surrounding whitespace and one sign are accepted, then decimal
\* digits; anything else raises ValueError
int(s) ==
    LET b == strip(s)
        signed == b # <<>> /\ b[1] \in {"+", "-"}
        d == IF signed THEN SubSeq(b, 2, Len(b)) ELSE b
    IN  IF AllDigits(d)
        THEN Return(IF signed /\ b[1] = "-" THEN 0 - DigitsVal(d) ELSE DigitsVal(d))
        ELSE Raise("ValueError")

(***************************************************************************)
(* calendar and datetime                                                   *)
(***************************************************************************)
MINYEAR == 1
MAXYEAR == 9999

isleap(year) == year % 4 = 0 /\ (year % 100 # 0 \/ year % 400 = 0)

mdays == <<31, 28, 31, 30, 31, 30, 31, 31, 30, 31, 30, 31>>

days_in_month(year, month) ==
    mdays[month] + (IF month = 2 /\ isleap(year) THEN 1 ELSE 0)

month_name ==
    <<"January", "February", "March", "April", "May", "June", "July",
      "August", "September", "October", "November", "December">>

\* proleptic Gregorian ordinal of a date, January 1 of year 1 being day 1
days_before_year(year) ==
    LET y == year - 1 IN y * 365 + (y \div 4) - (y \div 100) + (y \div 400)

RECURSIVE days_before_month(_, _)
days_before_month(year, month) ==
    IF month = 1 THEN 0
    ELSE days_before_month(year, month - 1) + days_in_month(year, month - 1)

toordinal(d) == days_before_year(d.year) + days_before_month(d.year, d.month) + d.day

\* date.weekday(): Monday is 0
weekday(d) == (toordinal(d) + 6) % 7

\* datetime(year, month, day, hour, minute) raises ValueError outside these
datetime_ok(year, month, day, hour, minute) ==
    /\ MINYEAR <= year /\ year <= MAXYEAR
    /\ 1 <= month /\ month <= 12
    /\ 1 <= day /\ day <= days_in_month(year, month)
    /\ 0 <= hour /\ hour <= 23
    /\ 0 <= minute /\ minute <= 59

datetime(year, month, day, hour, minute) ==
    [year |-> year, month |-> month, day |-> day, hour |-> hour, minute |-> minute]

next_day(d) ==
    IF d.day < days_in_month(d.year, d.month) THEN [d EXCEPT !.day = @ + 1]
    ELSE IF d.month < 12 THEN [d EXCEPT !.day = 1, !.month = @ + 1]
    ELSE [d EXCEPT !.day = 1, !.month = 1, !.year = @ + 1]

\* dt + timedelta(days=n): the wall clock moves, the tzinfo stays
RECURSIVE add_days(_, _)
add_days(d, n) == IF n = 0 THEN d ELSE add_days(next_day(d), n - 1)

\* minutes of a wall-clock reading since 0001-01-01 00:00
wall_minutes(d) == ((toordinal(d) - 1) * 24 + d.hour) * 60 + d.minute

\* date.fromordinal(n)
fromordinal(n) ==
    LET year == CHOOSE y \in (n \div 366) .. (n \div 365) + 1 :
                    days_before_year(y) < n /\ n <= days_before_year(y + 1)
        rest == n - days_before_year(year)
        month == CHOOSE m \in 1 .. 12 :
                     /\ days_before_month(year, m) < rest
                     /\ rest <= days_before_month(year, m) + days_in_month(year, m)
    IN  [year |-> year, month |-> month, day |-> rest - days_before_month(year, month)]

\* the wall-clock reading that is w minutes after 0001-01-01 00:00
from_wall_minutes(w) ==
    LET d == fromordinal((w \div 1440) + 1)
    IN  datetime(d.year, d.month, d.day, (w % 1440) \div 60, w % 60)

\* the Unix epoch 1970-01-01 00:00 UTC, in minutes since 0001-01-01 00:00
EPOCH == wall_minutes(datetime(1970, 1, 1, 0, 0))

(***************************************************************************)
(* pytz: the zones the model knows.  UTC has a fixed offset; New York has  *)
(* US daylight-saving rules: clocks go from 02:00 EST to 03:00 EDT on the  *)
(* second Sunday of March and from 02:00 EDT back to 01:00 EST on the      *)
(* first Sunday of November.  Offsets are in minutes east of UTC.          *)
(***************************************************************************)
Zones == {"UTC", "America/New_York"}

std_offset(tz) == IF tz = "UTC" THEN 0 ELSE 0 - 300
dst_offset(tz) == IF tz = "UTC" THEN 0 ELSE 0 - 240

nth_sunday(year, month, first) ==
    CHOOSE d \in first .. first + 6 :
        weekday([year |-> year, month |-> month, day |-> d]) = 6

\* wall-clock minute at which daylight-saving time begins (the first wall
\* clock reading that does not exist) and at which it ends
dst_start(year) == wall_minutes(datetime(year, 3, nth_sunday(year, 3, 8), 2, 0))
dst_end(year) == wall_minutes(datetime(year, 11, nth_sunday(year, 11, 1), 2, 0))

aware(d, off) ==
    [year |-> d.year, month |-> d.month, day |-> d.day,
     hour |-> d.hour, minute |-> d.minute, utcoff |-> off]

\* tz.localize(naive) with the default is_dst=False: a wall-clock reading
\* that is ambiguous or does not exist gets the standard offset
localize(tz, d) ==
    IF tz = "UTC" THEN aware(d, 0)
    ELSE LET w == wall_minutes(d)
         IN  IF dst_start(d.year) + 60 <= w /\ w < dst_end(d.year) - 60
             THEN aware(d, dst_offset(tz))
             ELSE aware(d, std_offset(tz))

\* the instant of an aware datetime, in minutes; aware datetimes are
\* compared by their instants
utc_minutes(a) == wall_minutes(a) - a.utcoff

\* aware.astimezone(pytz.UTC): OverflowError when the instant is outside
\* the years datetime represents
astimezone_utc(a) ==
    LET u == utc_minutes(a)
    IN  IF u < 0 \/ u \div 1440 >= days_before_year(MAXYEAR + 1)
        THEN Raise("OverflowError")
        ELSE Return(aware(from_wall_minutes(u), 0))

\* aware.timestamp(): seconds since the epoch
timestamp(a) == (utc_minutes(a) - EPOCH) * 60

\* datetime.fromtimestamp(ts, tz): the wall clock of the zone at the instant
fromtimestamp(tz, ts) ==
    LET u == (ts \div 60) + EPOCH
        std == from_wall_minutes(u + std_offset(tz))
        dst == from_wall_minutes(u + dst_offset(tz))
        w == wall_minutes(dst)
    IN  IF tz # "UTC" /\ dst_start(dst.year) + 60 <= w /\ w < dst_end(dst.year)
        THEN aware(dst, dst_offset(tz))
        ELSE aware(std, std_offset(tz))

\* the aware datetimes datetime.now(tz) can return
is_reading(tz, a) ==
    /\ datetime_ok(a.year, a.month, a.day, a.hour, a.minute)
    /\ IF tz = "UTC" THEN a.utcoff = 0
       ELSE LET w == wall_minutes(a)
            IN  \/ /\ a.utcoff = dst_offset(tz)
                   /\ dst_start(a.year) + 60 <= w /\ w < dst_end(a.year)
                \/ /\ a.utcoff = std_offset(tz)
                   /\ (w < dst_start(a.year) \/ dst_end(a.year) - 60 <= w)

\* the reading of the clock one minute after the reading a
next_minute(tz, a) ==
    LET w == IF a.minute < 59 THEN [a EXCEPT !.minute = @ + 1]
             ELSE IF a.hour < 23 THEN [a EXCEPT !.minute = 0, !.hour = @ + 1]
             ELSE [next_day(a) EXCEPT !.minute = 0, !.hour = 0]
    IN  IF tz = "UTC" THEN w
        ELSE IF a.utcoff = std_offset(tz) /\ wall_minutes(w) = dst_start(w.year)
             THEN [w EXCEPT !.hour = 3, !.utcoff = dst_offset(tz)]
        ELSE IF a.utcoff = dst_offset(tz) /\ wall_minutes(w) = dst_end(w.year)
             THEN [w EXCEPT !.hour = 1, !.utcoff = std_offset(tz)]
        ELSE w

RECURSIVE later(_, _, _)
later(tz, a, n) == IF n = 0 THEN a ELSE later(tz, next_minute(tz, a), n - 1)

(***************************************************************************)
(* datetime_parser.py                                                      *)
(***************************************************************************)
DAYS_OF_WEEK ==
    << <<"m", "o", "n", "d", "a", "y">>,
       <<"t", "u", "e", "s", "d", "a", "y">>,
       <<"w", "e", "d", "n", "e", "s", "d", "a", "y">>,
       <<"t", "h", "u", "r", "s", "d", "a", "y">>,
       <<"f", "r", "i", "d", "a", "y">>,
       <<"s", "a", "t", "u", "r", "d", "a", "y">>,
       <<"s", "u", "n", "d", "a", "y">> >>

\* the month names strptime knows for %B, in lower case; %b knows their
\* first three letters
MONTH_NAMES ==
    << <<"j", "a", "n", "u", "a", "r", "y">>,
       <<"f", "e", "b", "r", "u", "a", "r", "y">>,
       <<"m", "a", "r", "c", "h">>,
       <<"a", "p", "r", "i", "l">>,
       <<"m", "a", "y">>,
       <<"j", "u", "n", "e">>,
       <<"j", "u", "l", "y">>,
       <<"a", "u", "g", "u", "s", "t">>,
       <<"s", "e", "p", "t", "e", "m", "b", "e", "r">>,
       <<"o", "c", "t", "o", "b", "e", "r">>,
       <<"n", "o", "v", "e", "m", "b", "e", "r">>,
       <<"d", "e", "c", "e", "m", "b", "e", "r">> >>

\* datetime.strptime(s, "%B").month and datetime.strptime(s, "%b").month:
\* the whole string is a month name, whatever the letter case
strptime_B(s) ==
    LET l == lower(s)
    IN  IF \E i \in DOMAIN MONTH_NAMES : MONTH_NAMES[i] = l
        THEN Return(CHOOSE i \in DOMAIN MONTH_NAMES : MONTH_NAMES[i] = l)
        ELSE Raise("ValueError")

strptime_b(s) ==
    LET l == lower(s)
    IN  IF \E i \in DOMAIN MONTH_NAMES : SubSeq(MONTH_NAMES[i], 1, 3) = l
        THEN Return(CHOOSE i \in DOMAIN MONTH_NAMES : SubSeq(MONTH_NAMES[i], 1, 3) = l)
        ELSE Raise("ValueError")

\* the group ([01]?[0-9]|2[0-3]) of TIME_PATTERNS
hour_group(h) ==
    /\ AllDigits(h)
    /\ \/ Len(h) = 1
       \/ Len(h) = 2 /\ h[1] \in {"0", "1"}
       \/ Len(h) = 2 /\ h[1] = "2" /\ h[2] \in {"0", "1", "2", "3"}

\* the group :([0-5][0-9])
minute_group(m) ==
    /\ Len(m) = 3
    /\ m[1] = ":"
    /\ m[2] \in {"0", "1", "2", "3", "4", "5"}
    /\ IsDigit(m[3])

\* the group (am|pm) under re.IGNORECASE
period_group(p) == lower(p) \in {<<"a", "m">>, <<"p", "m">>}

\* TIME_PATTERNS[name].match(s): the lengths of the hour, minute and period
\* groups of a match, in a set that is empty when s does not match
TIME_PATTERNS(name, s) ==
    LET mlen == IF name \in {"12h_with_minutes", "24h_with_minutes"} THEN 3 ELSE 0
        plen == IF name \in {"12h_with_minutes", "12h_no_minutes"} THEN 2 ELSE 0
    IN  {k \in {1, 2} :
            /\ Len(s) = k + mlen + plen
            /\ hour_group(SubSeq(s, 1, k))
            /\ mlen = 0 \/ minute_group(SubSeq(s, k + 1, k + 3))
            /\ plen = 0 \/ period_group(SubSeq(s, k + mlen + 1, k + mlen + 2))}

ParsedDateTime(year, month, day, hour, minute) ==
    [year |-> year, month |-> month, day |-> day, hour |-> hour,
     minute |-> minute, is_valid |-> TRUE, error_message |-> None]

invalid(message) ==
    [year |-> 0, month |-> 0, day |-> 0, hour |-> 0,
     minute |-> 0, is_valid |-> FALSE, error_message |-> message]

\* parse_month with January for a name that is no month
parse_month_default_january(month) ==
    IF IsNone(month) THEN None
    ELSE IF IsInt(month)
    THEN IF 1 <= month.n /\ month.n <= 12 THEN PyInt(month.n) ELSE None
    ELSE LET num == int(month.s)
             full == strptime_B(month.s)
             abbr == strptime_b(month.s)
         IN  IF ~num.raised
             THEN IF 1 <= num.value /\ num.value <= 12 THEN PyInt(num.value) ELSE None
             ELSE IF ~full.raised THEN PyInt(full.value)
             ELSE IF ~abbr.raised THEN PyInt(abbr.value)
             ELSE PyInt(1)

parse_month(month) ==
    IF IsNone(month) THEN None
    ELSE IF IsInt(month)
    THEN IF 1 <= month.n /\ month.n <= 12 THEN PyInt(month.n) ELSE None
    ELSE LET num == int(month.s)
             full == strptime_B(month.s)
             abbr == strptime_b(month.s)
         IN  IF ~num.raised
             THEN IF 1 <= num.value /\ num.value <= 12 THEN PyInt(num.value) ELSE None
             ELSE IF ~full.raised THEN PyInt(full.value)
             ELSE IF ~abbr.raised THEN PyInt(abbr.value)
             ELSE None

\* _adjust_12h adding 12 to every pm hour, 12 included
_adjust_12h_pm_adds_12(hours, minutes, period) ==
    IF hours > 12 THEN <<PyInt(0 - 1), PyInt(0 - 1)>>
    ELSE IF period = <<"p", "m">> THEN <<PyInt(hours + 12), PyInt(minutes)>>
    ELSE IF period = <<"a", "m">> /\ hours = 12 THEN <<PyInt(0), PyInt(minutes)>>
    ELSE <<PyInt(hours), PyInt(minutes)>>

_adjust_12h(hours, minutes, period) ==
    IF hours > 12 THEN <<PyInt(0 - 1), PyInt(0 - 1)>>
    ELSE IF period = <<"p", "m">> /\ hours # 12 THEN <<PyInt(hours + 12), PyInt(minutes)>>
    ELSE IF period = <<"a", "m">> /\ hours = 12 THEN <<PyInt(0), PyInt(minutes)>>
    ELSE <<PyInt(hours), PyInt(minutes)>>

\* Returns (hour, minute), (None, None) if empty, (-1, -1) if invalid
parse_time(time_str) ==
    IF IsNone(time_str) \/ time_str.s = <<>> THEN <<None, None>>
    ELSE LET s == lower(strip(time_str.s))
             group(k, n) == SubSeq(s, k + 1, k + n)
             m1 == TIME_PATTERNS("12h_with_minutes", s)
             m2 == TIME_PATTERNS("12h_no_minutes", s)
             m3 == TIME_PATTERNS("24h_with_minutes", s)
             m4 == TIME_PATTERNS("24h_no_minutes", s)
         IN  IF m1 # {}
             THEN LET k == CHOOSE k \in m1 : TRUE
                  IN  _adjust_12h(DigitsVal(group(0, k)), DigitsVal(group(k + 1, 2)),
                                  lower(group(k + 3, 2)))
             ELSE IF m2 # {}
             THEN LET k == CHOOSE k \in m2 : TRUE
                  IN  _adjust_12h(DigitsVal(group(0, k)), 0, lower(group(k, 2)))
             ELSE IF m3 # {}
             THEN LET k == CHOOSE k \in m3 : TRUE
                  IN  <<PyInt(DigitsVal(group(0, k))), PyInt(DigitsVal(group(k + 1, 2)))>>
             ELSE IF m4 # {}
             THEN LET k == CHOOSE k \in m4 : TRUE
                  IN  <<PyInt(DigitsVal(group(0, k))), PyInt(0)>>
             ELSE <<PyInt(0 - 1), PyInt(0 - 1)>>

\* parse_day_name that returns the last weekday the prefix matches
parse_day_name_last_match(day_name) ==
    LET l == lower(day_name)
        hits == {i \in DOMAIN DAYS_OF_WEEK : startswith(DAYS_OF_WEEK[i], l)}
    IN  IF hits = {} THEN None
        ELSE PyInt((CHOOSE i \in hits : \A j \in hits : i >= j) - 1)

\* Day of week number for a day name, None if there is none: the first
\* name of DAYS_OF_WEEK that starts with the lowered token
parse_day_name(day_name) ==
    LET l == lower(day_name)
        hits == {i \in DOMAIN DAYS_OF_WEEK : startswith(DAYS_OF_WEEK[i], l)}
    IN  IF hits = {} THEN None
        ELSE PyInt((CHOOSE i \in hits : \A j \in hits : i <= j) - 1)

\* get_next_weekday without `if days_ahead == 0: days_ahead = 7`
get_next_weekday_same_day(now, target_dow) ==
    LET current_dow == weekday(now)
        days_ahead == (target_dow - current_dow + 7) % 7
    IN  add_days(now, days_ahead)

\* get_next_weekday with the difference of the weekdays taken the other way
get_next_weekday_backwards(now, target_dow) ==
    LET current_dow == weekday(now)
        days_ahead == (current_dow - target_dow + 7) % 7
    IN  add_days(now, IF days_ahead = 0 THEN 7 ELSE days_ahead)

\* now + timedelta(days=days_ahead), now being the reading of the clock
\* that get_next_weekday takes itself
get_next_weekday(now, target_dow) ==
    LET current_dow == weekday(now)
        days_ahead == (target_dow - current_dow + 7) % 7
    IN  add_days(now, IF days_ahead = 0 THEN 7 ELSE days_ahead)

\* Returns (day_number, is_day_name), (None, False) if empty, (-1, False) if invalid
parse_day(day) ==
    IF IsNone(day) THEN <<None, FALSE>>
    ELSE IF IsInt(day)
    THEN IF 1 <= day.n /\ day.n <= 31 THEN <<PyInt(day.n), FALSE>>
         ELSE <<PyInt(0 - 1), FALSE>>
    ELSE LET num == int(day.s)
             dow == parse_day_name(day.s)
         IN  IF ~num.raised
             THEN IF 1 <= num.value /\ num.value <= 31 THEN <<PyInt(num.value), FALSE>>
                  ELSE <<PyInt(0 - 1), FALSE>>
             ELSE IF ~IsNone(dow) THEN <<dow, TRUE>>
             ELSE <<PyInt(0 - 1), FALSE>>

\* the loop of _find_next_month_with_day with `left` iterations to go
RECURSIVE find_loop(_, _, _, _)
find_loop(day, year, month, left) ==
    IF left = 0 THEN <<year, month>>
    ELSE IF day <= days_in_month(year, month) THEN <<year, month>>
    ELSE IF month + 1 > 12 THEN find_loop(day, year + 1, 1, left - 1)
    ELSE find_loop(day, year, month + 1, left - 1)

_find_next_month_with_day(day, start_year, start_month) ==
    find_loop(day, start_year, start_month, 12)

\* lines 232-250 of parse with the year advanced whenever the target is not
\* after now, whether or not the year was specified
month_and_day_always_bumps(tz, now, parsed_year, parsed_month, parsed_day, year_was_specified, hours, minutes) ==
    IF parsed_day > days_in_month(parsed_year, parsed_month)
    THEN invalid([kind |-> "Invalid date", month_name |-> month_name[parsed_month],
                  days |-> parsed_day])
    ELSE IF utc_minutes(localize(tz, datetime(parsed_year, parsed_month, parsed_day,
                                              hours, minutes)))
                <= utc_minutes(now)
    THEN IF parsed_day > days_in_month(parsed_year + 1, parsed_month)
         THEN invalid([kind |-> "Invalid date", month_name |-> month_name[parsed_month],
                       year |-> parsed_year + 1, days |-> parsed_day])
         ELSE [is_valid |-> TRUE, year |-> parsed_year + 1, month |-> parsed_month,
               day |-> parsed_day]
    ELSE [is_valid |-> TRUE, year |-> parsed_year, month |-> parsed_month,
          day |-> parsed_day]

\* lines 232-250 of parse with `target < now` for `target <= now`
month_and_day_strict(tz, now, parsed_year, parsed_month, parsed_day, year_was_specified, hours, minutes) ==
    IF parsed_day > days_in_month(parsed_year, parsed_month)
    THEN invalid([kind |-> "Invalid date", month_name |-> month_name[parsed_month],
                  days |-> parsed_day])
    ELSE IF ~year_was_specified
            /\ utc_minutes(localize(tz, datetime(parsed_year, parsed_month, parsed_day,
                                                 hours, minutes)))
                   < utc_minutes(now)
    THEN IF parsed_day > days_in_month(parsed_year + 1, parsed_month)
         THEN invalid([kind |-> "Invalid date", month_name |-> month_name[parsed_month],
                       year |-> parsed_year + 1, days |-> parsed_day])
         ELSE [is_valid |-> TRUE, year |-> parsed_year + 1, month |-> parsed_month,
               day |-> parsed_day]
    ELSE [is_valid |-> TRUE, year |-> parsed_year, month |-> parsed_month,
          day |-> parsed_day]

\* lines 232-250 of parse, both month and day specified: the date, or the
\* invalid result
month_and_day(tz, now, parsed_year, parsed_month, parsed_day, year_was_specified, hours, minutes) ==
    IF parsed_day > days_in_month(parsed_year, parsed_month)
    THEN invalid([kind |-> "Invalid date", month_name |-> month_name[parsed_month],
                  days |-> parsed_day])
    ELSE IF ~year_was_specified
            /\ utc_minutes(localize(tz, datetime(parsed_year, parsed_month, parsed_day,
                                                 hours, minutes)))
                   <= utc_minutes(now)
    THEN IF parsed_day > days_in_month(parsed_year + 1, parsed_month)
         THEN invalid([kind |-> "Invalid date", month_name |-> month_name[parsed_month],
                       year |-> parsed_year + 1, days |-> parsed_day])
         ELSE [is_valid |-> TRUE, year |-> parsed_year + 1, month |-> parsed_month,
               day |-> parsed_day]
    ELSE [is_valid |-> TRUE, year |-> parsed_year, month |-> parsed_month,
          day |-> parsed_day]

\* lines 252-256 of parse with `parsed_month < now.month` for
\* `parsed_month <= now.month`
month_only_strict(now, parsed_year, parsed_month, year_was_specified) ==
    [is_valid |-> TRUE,
     year |-> IF ~year_was_specified /\ parsed_month < now.month
              THEN parsed_year + 1 ELSE parsed_year,
     month |-> parsed_month, day |-> 1]

\* lines 252-256 of parse, only month specified: the 1st of that month, next
\* occurrence
month_only(now, parsed_year, parsed_month, year_was_specified) ==
    [is_valid |-> TRUE,
     year |-> IF ~year_was_specified /\ parsed_month <= now.month
              THEN parsed_year + 1 ELSE parsed_year,
     month |-> parsed_month, day |-> 1]

\* lines 258-270 of parse with `parsed_day < now.day` for `parsed_day <= now.day`
day_only_strict(now, parsed_day) ==
    LET bump == parsed_day < now.day
        start_month == IF bump THEN (IF now.month + 1 > 12 THEN 1 ELSE now.month + 1)
                       ELSE now.month
        start_year == IF bump /\ now.month + 1 > 12 THEN now.year + 1 ELSE now.year
        ym == _find_next_month_with_day(parsed_day, start_year, start_month)
    IN  [is_valid |-> TRUE, year |-> ym[1], month |-> ym[2], day |-> parsed_day]

\* lines 258-270 of parse, only day specified: the next month with that day,
\* from the current month if the day has not passed, otherwise the next
day_only(now, parsed_day) ==
    LET bump == parsed_day <= now.day
        start_month == IF bump THEN (IF now.month + 1 > 12 THEN 1 ELSE now.month + 1)
                       ELSE now.month
        start_year == IF bump /\ now.month + 1 > 12 THEN now.year + 1 ELSE now.year
        ym == _find_next_month_with_day(parsed_day, start_year, start_month)
    IN  [is_valid |-> TRUE, year |-> ym[1], month |-> ym[2], day |-> parsed_day]

\* the final adjustment with `target < now` for `target <= now`
time_adjustment_strict(tz, now, applies, parsed_year, parsed_month, parsed_day, hours, minutes) ==
    IF ~applies
    THEN Return(ParsedDateTime(parsed_year, parsed_month, parsed_day, hours, minutes))
    ELSE IF ~datetime_ok(parsed_year, parsed_month, parsed_day, hours, minutes)
    THEN Raise("ValueError")
    ELSE IF utc_minutes(localize(tz, datetime(parsed_year, parsed_month, parsed_day,
                                              hours, minutes)))
                < utc_minutes(now)
    THEN LET tomorrow == add_days(now, 1)
         IN  Return(ParsedDateTime(tomorrow.year, tomorrow.month, tomorrow.day,
                                   hours, minutes))
    ELSE Return(ParsedDateTime(parsed_year, parsed_month, parsed_day, hours, minutes))

\* lines 283-299 of parse: the final time-based adjustment, applied when
\* `applies` (not month_was_specified and day is None and time is not None),
\* and the return of the result
time_adjustment(tz, now, applies, parsed_year, parsed_month, parsed_day, hours, minutes) ==
    IF ~applies
    THEN Return(ParsedDateTime(parsed_year, parsed_month, parsed_day, hours, minutes))
    ELSE IF ~datetime_ok(parsed_year, parsed_month, parsed_day, hours, minutes)
    THEN Raise("ValueError")
    ELSE IF utc_minutes(localize(tz, datetime(parsed_year, parsed_month, parsed_day,
                                              hours, minutes)))
                <= utc_minutes(now)
    THEN LET tomorrow == add_days(now, 1)
         IN  Return(ParsedDateTime(tomorrow.year, tomorrow.month, tomorrow.day,
                                   hours, minutes))
    ELSE Return(ParsedDateTime(parsed_year, parsed_month, parsed_day, hours, minutes))

\* parse with the month examined before the weekday branch is taken
parse_month_before_weekday(tz, now, now_wd, year, month, day, time) ==
    LET pt == parse_time(time)
        time_invalid == /\ IsInt(pt[1]) /\ pt[1].n = 0 - 1
                        /\ IsInt(pt[2]) /\ pt[2].n = 0 - 1
        hours == IF IsNone(pt[1]) THEN 0 ELSE pt[1].n
        minutes == IF IsNone(pt[1]) THEN 0 ELSE pt[2].n
        pd == parse_day(day)
        parsed_day == pd[1]
        is_day_name == pd[2]
        month_was_specified == ~IsNone(month)
        parsed_month == parse_month(month)
        year_was_specified == ~IsNone(year)
        parsed_year == IF year_was_specified THEN year.n ELSE now.year
        date == IF month_was_specified /\ ~IsNone(parsed_day)
                THEN month_and_day(tz, now, parsed_year, parsed_month.n, parsed_day.n,
                                   year_was_specified, hours, minutes)
                ELSE IF month_was_specified /\ IsNone(parsed_day)
                THEN month_only(now, parsed_year, parsed_month.n, year_was_specified)
                ELSE IF ~month_was_specified /\ ~IsNone(parsed_day)
                THEN day_only(now, parsed_day.n)
                ELSE IF year_was_specified /\ ~month_was_specified /\ IsNone(parsed_day)
                THEN [is_valid |-> TRUE, year |-> parsed_year, month |-> 1, day |-> 1]
                ELSE [is_valid |-> TRUE, year |-> now.year, month |-> now.month,
                      day |-> now.day]
    IN  IF time_invalid
        THEN [outcome |-> Return(invalid([kind |-> "Invalid time", time |-> time])),
              reads |-> 1]
        ELSE IF IsInt(parsed_day) /\ parsed_day.n = 0 - 1
        THEN [outcome |-> Return(invalid([kind |-> "Invalid day", day |-> day])),
              reads |-> 1]
        ELSE IF month_was_specified /\ IsNone(parsed_month)
        THEN [outcome |-> Return(invalid([kind |-> "Invalid month", month |-> month])),
              reads |-> 1]
        ELSE IF is_day_name
        THEN LET next_date == get_next_weekday(now_wd, parsed_day.n)
             IN  [outcome |-> Return(ParsedDateTime(next_date.year, next_date.month,
                                                    next_date.day, hours, minutes)),
                  reads |-> 2]
        ELSE IF ~date.is_valid
        THEN [outcome |-> Return(date), reads |-> 1]
        ELSE [outcome |-> time_adjustment(tz, now,
                              ~month_was_specified /\ IsNone(day) /\ ~IsNone(time),
                              date.year, date.month, date.day, hours, minutes),
              reads |-> 1]

\* parse with the year that was passed kept in the only-day branch
parse_day_only_keeps_year(tz, now, now_wd, year, month, day, time) ==
    LET pt == parse_time(time)
        time_invalid == /\ IsInt(pt[1]) /\ pt[1].n = 0 - 1
                        /\ IsInt(pt[2]) /\ pt[2].n = 0 - 1
        hours == IF IsNone(pt[1]) THEN 0 ELSE pt[1].n
        minutes == IF IsNone(pt[1]) THEN 0 ELSE pt[2].n
        pd == parse_day(day)
        parsed_day == pd[1]
        is_day_name == pd[2]
        month_was_specified == ~IsNone(month)
        parsed_month == parse_month(month)
        year_was_specified == ~IsNone(year)
        parsed_year == IF year_was_specified THEN year.n ELSE now.year
        date == IF month_was_specified /\ ~IsNone(parsed_day)
                THEN month_and_day(tz, now, parsed_year, parsed_month.n, parsed_day.n,
                                   year_was_specified, hours, minutes)
                ELSE IF month_was_specified /\ IsNone(parsed_day)
                THEN month_only(now, parsed_year, parsed_month.n, year_was_specified)
                ELSE IF ~month_was_specified /\ ~IsNone(parsed_day)
                THEN [day_only(now, parsed_day.n) EXCEPT !.year = parsed_year]
                ELSE IF year_was_specified /\ ~month_was_specified /\ IsNone(parsed_day)
                THEN [is_valid |-> TRUE, year |-> parsed_year, month |-> 1, day |-> 1]
                ELSE [is_valid |-> TRUE, year |-> now.year, month |-> now.month,
                      day |-> now.day]
    IN  IF time_invalid
        THEN [outcome |-> Return(invalid([kind |-> "Invalid time", time |-> time])),
              reads |-> 1]
        ELSE IF IsInt(parsed_day) /\ parsed_day.n = 0 - 1
        THEN [outcome |-> Return(invalid([kind |-> "Invalid day", day |-> day])),
              reads |-> 1]
        ELSE IF is_day_name
        THEN LET next_date == get_next_weekday(now_wd, parsed_day.n)
             IN  [outcome |-> Return(ParsedDateTime(next_date.year, next_date.month,
                                                    next_date.day, hours, minutes)),
                  reads |-> 2]
        ELSE IF month_was_specified /\ IsNone(parsed_month)
        THEN [outcome |-> Return(invalid([kind |-> "Invalid month", month |-> month])),
              reads |-> 1]
        ELSE IF ~date.is_valid
        THEN [outcome |-> Return(date), reads |-> 1]
        ELSE [outcome |-> time_adjustment(tz, now,
                              ~month_was_specified /\ IsNone(day) /\ ~IsNone(time),
                              date.year, date.month, date.day, hours, minutes),
              reads |-> 1]

\* parse(year, month, day, time) with the readings of the clock it gets:
\* `now` at its first line and `now_wd` inside get_next_weekday.  The value
\* is the outcome of the call and the number of readings it made.
parse(tz, now, now_wd, year, month, day, time) ==
    LET pt == parse_time(time)
        time_invalid == /\ IsInt(pt[1]) /\ pt[1].n = 0 - 1
                        /\ IsInt(pt[2]) /\ pt[2].n = 0 - 1
        hours == IF IsNone(pt[1]) THEN 0 ELSE pt[1].n
        minutes == IF IsNone(pt[1]) THEN 0 ELSE pt[2].n
        pd == parse_day(day)
        parsed_day == pd[1]
        is_day_name == pd[2]
        month_was_specified == ~IsNone(month)
        parsed_month == parse_month(month)
        year_was_specified == ~IsNone(year)
        parsed_year == IF year_was_specified THEN year.n ELSE now.year
        date == IF month_was_specified /\ ~IsNone(parsed_day)
                THEN month_and_day(tz, now, parsed_year, parsed_month.n, parsed_day.n,
                                   year_was_specified, hours, minutes)
                ELSE IF month_was_specified /\ IsNone(parsed_day)
                THEN month_only(now, parsed_year, parsed_month.n, year_was_specified)
                ELSE IF ~month_was_specified /\ ~IsNone(parsed_day)
                THEN day_only(now, parsed_day.n)
                ELSE IF year_was_specified /\ ~month_was_specified /\ IsNone(parsed_day)
                THEN [is_valid |-> TRUE, year |-> parsed_year, month |-> 1, day |-> 1]
                ELSE [is_valid |-> TRUE, year |-> now.year, month |-> now.month,
                      day |-> now.day]
    IN  IF time_invalid
        THEN [outcome |-> Return(invalid([kind |-> "Invalid time", time |-> time])),
              reads |-> 1]
        ELSE IF IsInt(parsed_day) /\ parsed_day.n = 0 - 1
        THEN [outcome |-> Return(invalid([kind |-> "Invalid day", day |-> day])),
              reads |-> 1]
        ELSE IF is_day_name
        THEN LET next_date == get_next_weekday(now_wd, parsed_day.n)
             IN  [outcome |-> Return(ParsedDateTime(next_date.year, next_date.month,
                                                    next_date.day, hours, minutes)),
                  reads |-> 2]
        ELSE IF month_was_specified /\ IsNone(parsed_month)
        THEN [outcome |-> Return(invalid([kind |-> "Invalid month", month |-> month])),
              reads |-> 1]
        ELSE IF ~date.is_valid
        THEN [outcome |-> Return(date), reads |-> 1]
        ELSE [outcome |-> time_adjustment(tz, now,
                              ~month_was_specified /\ IsNone(day) /\ ~IsNone(time),
                              date.year, date.month, date.day, hours, minutes),
              reads |-> 1]

\* to_utc_timestamp with the ValueError of datetime(...) not caught
to_utc_timestamp_uncaught(tz, parsed) ==
    IF ~parsed.is_valid THEN Return(None)
    ELSE IF ~datetime_ok(parsed.year, parsed.month, parsed.day, parsed.hour,
                         parsed.minute)
    THEN Raise("ValueError")
    ELSE LET local_dt == localize(tz, datetime(parsed.year, parsed.month, parsed.day,
                                               parsed.hour, parsed.minute))
             utc_dt == astimezone_utc(local_dt)
         IN  IF utc_dt.raised THEN Return(None)
             ELSE Return(PyInt(timestamp(utc_dt.value)))

\* to_utc_timestamp(parsed): the UTC Unix timestamp, None when parsed is not
\* valid and when ValueError or OverflowError is caught
to_utc_timestamp(tz, parsed) ==
    IF ~parsed.is_valid THEN Return(None)
    ELSE IF ~datetime_ok(parsed.year, parsed.month, parsed.day, parsed.hour,
                         parsed.minute)
    THEN Return(None)
    ELSE LET local_dt == localize(tz, datetime(parsed.year, parsed.month, parsed.day,
                                               parsed.hour, parsed.minute))
             utc_dt == astimezone_utc(local_dt)
         IN  IF utc_dt.raised THEN Return(None)
             ELSE Return(PyInt(timestamp(utc_dt.value)))

(***************************************************************************)
(* The calls the model makes: every request drawn from the tokens below,   *)
(* in each zone, at each reading of the clock.                             *)
(***************************************************************************)
MaxClockYear == 2024
MaxTick == 1

time_1_15 == PyStr(<<"1", ":", "1", "5">>)
time_10am == PyStr(<<"1", "0", "a", "m">>)
time_12_30PM == PyStr(<<"1", "2", ":", "3", "0", "P", "M">>)
time_23_59 == PyStr(<<"2", "3", ":", "5", "9">>)
time_empty == PyStr(<<>>)
time_13pm == PyStr(<<"1", "3", "p", "m">>)
time_noon == PyStr(<<"n", "o", "o", "n">>)
day_29 == PyStr(<<"2", "9">>)
day_30 == PyStr(<<"3", "0">>)
day_31 == PyStr(<<"3", "1">>)
day_Monday == PyStr(<<"M", "o", "n", "d", "a", "y">>)
day_t == PyStr(<<"t">>)
day_sun == PyStr(<<"s", "u", "n">>)
day_empty == PyStr(<<>>)
day_xyz == PyStr(<<"x", "y", "z">>)
day_32 == PyStr(<<"3", "2">>)
month_February == PyStr(<<"F", "e", "b", "r", "u", "a", "r", "y">>)
month_4 == PyStr(<<"4">>)
month_DEC == PyStr(<<"D", "E", "C">>)
month_sept == PyStr(<<"s", "e", "p", "t">>)
month_empty == PyStr(<<>>)

\* time tokens of the four recognised forms, and tokens of none of them
WellFormedTimes == {time_1_15, time_10am, time_12_30PM, time_23_59}
MalformedTimes == {time_13pm, time_noon}
TimeTokens == {None, time_empty} \cup WellFormedTimes \cup MalformedTimes

\* days of the month as int and as numeric str, prefixes of weekday names
\* (the empty str is a prefix of each), and tokens that are neither
NumericDays == {PyInt(1), day_29, day_30, day_31}
DayNames == {day_Monday, day_t, day_sun, day_empty}
MalformedDays == {PyInt(0), day_xyz, day_32}
DayTokens == {None} \cup NumericDays \cup DayNames \cup MalformedDays

\* months as int, numeric str, full and abbreviated name, and tokens that
\* are none of them
WellFormedMonths == {PyInt(1), month_February, month_4, month_DEC}
MalformedMonths == {PyInt(13), month_sept, month_empty}
MonthTokens == {None} \cup WellFormedMonths \cup MalformedMonths

\* years inside and outside the range datetime can represent
YearTokens == {None, PyInt(0), PyInt(2023), PyInt(2024), PyInt(99999)}

Requests ==
    [year : YearTokens, month : MonthTokens, day : DayTokens, time : TimeTokens]

\* wall-clock readings: days at the ends of months and of the year, the
\* first day of the year, the leap day, a day in the middle of a month; in
\* New York the days of 2024 on which the clocks change, and the last day
\* of that year
ClockDays ==
    {<<1, 1>>, <<1, 31>>, <<2, 28>>, <<2, 29>>, <<3, 10>>, <<11, 3>>, <<12, 31>>}
ClockChangeDays == {<<3, 10>>, <<11, 3>>, <<12, 31>>}
ClockTimes == {<<1, 30>>, <<23, 59>>}

Readings(zone) ==
    {a \in [year : 2023 .. MaxClockYear, month : {md[1] : md \in ClockDays},
            day : {md[2] : md \in ClockDays}, hour : {hm[1] : hm \in ClockTimes},
            minute : {hm[2] : hm \in ClockTimes},
            utcoff : {std_offset(zone), dst_offset(zone)}] :
        /\ <<a.month, a.day>> \in ClockDays
        /\ <<a.hour, a.minute>> \in ClockTimes
        /\ zone # "UTC" => a.year = 2024 /\ <<a.month, a.day>> \in ClockChangeDays
        /\ is_reading(zone, a)}

VARIABLES
    tz,         \* the timezone the DateTimeParser was built with
    clock,      \* the reading of the clock at the call of parse
    request,    \* the arguments of the call
    pc,         \* "call" before parse has run, "done" after
    result,     \* the outcome of the call: a ParsedDateTime or an exception
    readings,   \* the readings of the clock the call has taken, in order
    stamp,      \* the outcome of to_utc_timestamp on the result, None before
    users,      \* the users table: discord_id -> row
    events,     \* the events table: a set of rows
    next_id,    \* the id AUTOINCREMENT gives the next event
    tasks,      \* per task: the command in progress, where it is, its locals
    started,    \* the number of commands invoked so far
    last,       \* the call or press made last, with what it returned
    view        \* a PaginatedView on display

parservars == <<tz, clock, request, pc, result, readings, stamp>>

botvars == <<users, events, next_id, tasks, started>>

vars == <<tz, clock, request, pc, result, readings, stamp, users, events, next_id, tasks,
          started, last, view>>

(***************************************************************************)
(* The command layer over the database.  The bot runs every command as a   *)
(* coroutine on one event loop over one aiosqlite connection: a coroutine  *)
(* runs alone from one await of the connection to the next, so each SQL    *)
(* statement is one step, what one coroutine has written is read by the    *)
(* next statement of any other, and the steps of commands in progress      *)
(* interleave.  Awaits of Discord (defer, edit_response) change nothing    *)
(* stored and are joined to the step before them; the reply itself is the  *)
(* last step of a command.  Titles are left out: no decision reads them.   *)
(***************************************************************************)
UserIds == {1, 2}
Tasks == {1, 2}
EventIds == {1, 2}
MaxCommands == 4

\* a set of names that holds a name no zone has
all_timezones_set_with_unknown == Zones \cup {"Mars/Phobos"}

\* pytz.all_timezones_set, as far as the zones of the model go
all_timezones_set == Zones

\* the names users give /timezone set: a zone, and a name that is none
ZoneNames == {"America/New_York", "Mars/Phobos"}

PRIVATE == "private"
PUBLIC == "public"
PrivacySetting == {PRIVATE, PUBLIC}

\* the timezone column where it is not NULL: the name of a zone
TzName(zone) == [t |-> "str", zone |-> zone]

\* a row of users; NoRow where the table has none for the id
NoRow == [t |-> "None"]
User(zone, privacy) == [t |-> "User", timezone |-> zone, privacy |-> privacy]
is_private(user) == user.privacy = PRIVATE

\* a row of events
Event(id, user_id, ts) == [id |-> id, user_id |-> user_id, timestamp |-> ts]

\* SELECT ... FROM users WHERE discord_id = ?
get_user(rows, discord_id) == rows[discord_id]

\* SELECT ... FROM events WHERE id = ? with the owner not compared
get_event_any_user(evs, event_id, user_id) ==
    {e \in evs : e.id = event_id}

\* SELECT ... FROM events WHERE id = ? AND user_id = ?: the row, if any
get_event(evs, event_id, user_id) ==
    {e \in evs : e.id = event_id /\ e.user_id = user_id}

\* SELECT ... FROM events WHERE user_id = ?
get_events(evs, user_id) == {e \in evs : e.user_id = user_id}

\* DELETE FROM events WHERE id = ? AND user_id = ?
delete_event(evs, event_id, user_id) ==
    {e \in evs : ~(e.id = event_id /\ e.user_id = user_id)}

\* the guard of add_event that is never taken
all_none_never(req) == FALSE

\* all(param is None for param in [year, month, day, time])
all_none(req) ==
    IsNone(req.year) /\ IsNone(req.month) /\ IsNone(req.day) /\ IsNone(req.time)

\* the instant the clock shows while the commands run, and its reading in a zone
BotInstant == timestamp(aware(datetime(2024, 3, 10, 6, 30), 0))
bot_now(zone) == fromtimestamp(zone, BotInstant)

\* add_event after parse has returned or raised: the exception, or the
\* ParsedDateTime with what to_utc_timestamp returns for it
stamp_outcome(zone, r) ==
    IF r.raised THEN [raised |-> TRUE, exc |-> r.exc]
    ELSE [raised |-> FALSE, parsed |-> r.value,
          timestamp |-> to_utc_timestamp(zone, r.value).value]

\* parse followed by to_utc_timestamp, as add_event calls them
parse_and_stamp(zone, req) ==
    stamp_outcome(zone, parse(zone, bot_now(zone), bot_now(zone), req.year, req.month,
                              req.day, req.time).outcome)

\* the arguments of /calendar add: nothing, a time, a month that is none,
\* a year without a timestamp, a year parse raises on
AddRequests ==
    {[year |-> None, month |-> None, day |-> None, time |-> None],
     [year |-> None, month |-> None, day |-> None, time |-> time_23_59],
     [year |-> None, month |-> month_sept, day |-> None, time |-> None],
     [year |-> PyInt(99999), month |-> None, day |-> None, time |-> None],
     [year |-> PyInt(0), month |-> None, day |-> None, time |-> time_10am]}

\* the commands a user can invoke, with their arguments
Commands ==
    [cmd : {"add"}, arg : AddRequests]
    \cup [cmd : {"list"}, arg : UserIds]
    \cup [cmd : {"remove"}, arg : EventIds]
    \cup [cmd : {"privacy"}, arg : PrivacySetting]
    \cup [cmd : {"timezone"}, arg : ZoneNames]

Idle == [cmd |-> "idle"]

\* no command runs and the database is as initialize() leaves a new file
NoBot ==
    /\ users = [u \in UserIds |-> NoRow]
    /\ events = {}
    /\ next_id = 1
    /\ tasks = [t \in Tasks |-> Idle]
    /\ started = 0


Init ==
    /\ tz \in Zones
    /\ clock \in Readings(tz)
    /\ request \in Requests
    /\ pc = "call"
    /\ result = None
    /\ readings = <<>>
    /\ stamp = None
    /\ NoBot
    /\ last = None /\ view = None

\* One call of DateTimeParser.parse.  The clock may have advanced by up to
\* MaxTick minutes when get_next_weekday reads it again.
Parse ==
    /\ pc = "call"
    /\ \E first \in {parse(tz, clock, clock, request.year, request.month,
                           request.day, request.time)} :
        \E n \in 0 .. (IF first.reads = 2 THEN MaxTick ELSE 0) :
            \E again \in {later(tz, clock, n)} :
                \E r \in {IF n = 0 THEN first
                          ELSE parse(tz, clock, again, request.year, request.month,
                                     request.day, request.time)} :
                    /\ result' = r.outcome
                    /\ readings' = IF r.reads = 2 THEN <<clock, again>> ELSE <<clock>>
    /\ pc' = "done"
    /\ UNCHANGED <<tz, clock, request, stamp>>
    /\ UNCHANGED <<botvars, last, view>>

Next == Parse

Spec == Init /\ [][Next]_vars

(***************************************************************************)
(* Calls of parse_time alone, on the time tokens of the 12-hour forms:     *)
(* every hour the patterns accept, with one digit and with two, without    *)
(* minutes and with them, am and pm in lower, upper and mixed case.        *)
(***************************************************************************)
TwelveHourForms ==
    [h : 0 .. 23, two_digits : BOOLEAN, mm : {0 - 1, 0, 30, 59},
     period : {<<"a", "m">>, <<"p", "m">>, <<"A", "M">>, <<"P", "m">>}]

two_digit(n) == <<Digits[(n \div 10) + 1], Digits[(n % 10) + 1]>>

\* the token of a form; an hour of two digits is written with both
TokenOf(f) ==
    (IF f.two_digits \/ f.h > 9 THEN two_digit(f.h) ELSE <<Digits[f.h + 1]>>)
    \o (IF f.mm < 0 THEN <<>> ELSE <<":">> \o two_digit(f.mm))
    \o f.period

TwelveHourTokens == {PyStr(TokenOf(f)) : f \in TwelveHourForms}

InitTime ==
    /\ tz = "UTC"
    /\ clock = aware(datetime(2024, 1, 1, 1, 30), 0)
    /\ request \in [year : {None}, month : {None}, day : {None},
                    time : TwelveHourTokens]
    /\ pc = "call"
    /\ result = None
    /\ readings = <<>>
    /\ stamp = None
    /\ NoBot
    /\ last = None /\ view = None

\* One call of DateTimeParser.parse_time
ParseTime ==
    /\ pc = "call"
    /\ result' = Return(parse_time(request.time))
    /\ pc' = "done"
    /\ UNCHANGED <<tz, clock, request, readings, stamp>>
    /\ UNCHANGED <<botvars, last, view>>

NextTime == ParseTime

SpecTime == InitTime /\ [][NextTime]_vars

(***************************************************************************)
(* Calls of parse_day alone, on day tokens that are no numbers: every      *)
(* prefix of every weekday name, the empty one included, in lower case, in *)
(* upper case and capitalised, and each of them followed by a letter no    *)
(* name goes on with.                                                      *)
(***************************************************************************)
DayNameForms ==
    {f \in [name : DOMAIN DAYS_OF_WEEK, len : 0 .. 9,
            style : {"lower", "upper", "title"}, tail : {<<>>, <<"x">>}] :
        f.len <= Len(DAYS_OF_WEEK[f.name])}

\* a lower-case str in a letter case
cased(s, style) ==
    [i \in DOMAIN s |->
        IF style = "upper" \/ (style = "title" /\ i = 1)
        THEN UpperCase[CHOOSE k \in DOMAIN LowerCase : LowerCase[k] = s[i]]
        ELSE s[i]]

\* the token of a form
DayTokenOf(f) == cased(SubSeq(DAYS_OF_WEEK[f.name], 1, f.len), f.style) \o f.tail

InitDay ==
    /\ tz = "UTC"
    /\ clock = aware(datetime(2024, 1, 1, 1, 30), 0)
    /\ request \in [year : {None}, month : {None}, time : {None},
                    day : {PyStr(DayTokenOf(f)) : f \in DayNameForms}]
    /\ pc = "call"
    /\ result = None
    /\ readings = <<>>
    /\ stamp = None
    /\ NoBot
    /\ last = None /\ view = None

\* One call of DateTimeParser.parse_day
ParseDay ==
    /\ pc = "call"
    /\ result' = Return(parse_day(request.day))
    /\ pc' = "done"
    /\ UNCHANGED <<tz, clock, request, readings, stamp>>
    /\ UNCHANGED <<botvars, last, view>>

NextDay == ParseDay

SpecDay == InitDay /\ [][NextDay]_vars

(***************************************************************************)
(* Calls of parse followed by to_utc_timestamp on the result, as the       *)
(* command layer makes them: explicit dates on the days the clocks of New  *)
(* York change, at wall-clock times before, inside and after the hour that *)
(* is skipped or repeated, beside requests that are refused and years no   *)
(* datetime has.                                                           *)
(***************************************************************************)
time_1_30 == PyStr(<<"1", ":", "3", "0">>)
time_2_30 == PyStr(<<"2", ":", "3", "0">>)
time_3_30 == PyStr(<<"3", ":", "3", "0">>)

StampRequests ==
    [year : {None, PyInt(0), PyInt(2024), PyInt(99999)},
     month : {None, PyInt(3), PyInt(11), PyInt(13)},
     day : {None, PyInt(3), PyInt(10), day_31},
     time : {None, time_1_30, time_2_30, time_3_30, time_23_59, time_13pm}]

InitStamp ==
    /\ tz \in Zones
    /\ clock \in {a \in Readings(tz) : a.year = 2024 /\ a.month \in {3, 12}}
    /\ request \in StampRequests
    /\ pc = "call"
    /\ result = None
    /\ readings = <<>>
    /\ stamp = None
    /\ NoBot
    /\ last = None /\ view = None

\* to_utc_timestamp on the ParsedDateTime that parse returned
ToUtcTimestamp ==
    /\ pc = "done"
    /\ ~result.raised
    /\ stamp' = to_utc_timestamp(tz, result.value)
    /\ pc' = "stamped"
    /\ UNCHANGED <<tz, clock, request, result, readings>>
    /\ UNCHANGED <<botvars, last, view>>

NextStamp == Parse \/ ToUtcTimestamp

SpecStamp == InitStamp /\ [][NextStamp]_vars

(***************************************************************************)
(* The commands in progress, one step for each statement they await.       *)
(***************************************************************************)
InitBot ==
    /\ tz = "UTC"
    /\ clock = bot_now("UTC")
    /\ request = [year |-> None, month |-> None, day |-> None, time |-> None]
    /\ pc = "bot"
    /\ result = None
    /\ readings = <<>>
    /\ stamp = None
    /\ NoBot
    /\ last = None /\ view = None

\* the task with its position and its locals replaced
Goto(task, label, locals) == [task EXCEPT !.pc = label, !.loc = locals]

\* the command ends with this reply
Reply(task, text) == [task EXCEPT !.pc = "respond", !.loc = [reply |-> text]]

\* A user invokes a command.  set_privacy starts with update_user_privacy,
\* every other command with defer_response; both start with
\* get_or_create_user.
Invoke(t) ==
    /\ tasks[t] = Idle
    /\ started < MaxCommands
    /\ \E u \in UserIds, c \in Commands :
        tasks' = [tasks EXCEPT ![t] =
                     [cmd |-> c.cmd, user |-> u, arg |-> c.arg, loc |-> None,
                      pc |-> IF c.cmd = "privacy" THEN "update:get_user"
                             ELSE "defer:get_user"]]
    /\ started' = started + 1
    /\ UNCHANGED <<users, events, next_id>>
    /\ UNCHANGED <<parservars, last, view>>

\* where a command goes on once defer_response has returned
AfterDefer(task) ==
    CASE task.cmd = "add" ->
            IF all_none(task.arg)
            THEN Reply(task, "Please provide at least one date or time parameter.")
            ELSE Goto(task, "get_user", None)
      [] task.cmd = "list" ->
            IF task.arg = task.user THEN Goto(task, "get_events", None)
            ELSE Goto(task, "get_user", None)
      [] task.cmd = "remove" -> Goto(task, "get_event", None)
      [] task.cmd = "timezone" ->
            IF task.arg \notin all_timezones_set THEN Reply(task, "Invalid timezone")
            ELSE Goto(task, "update:get_user", None)
      [] task.cmd = "wipe" -> Goto(task, "count_events", None)
      [] task.cmd = "wipe_data" -> Goto(task, "get_user", None)

\* where a task goes on once get_or_create_user has returned
AfterGetOrCreate(task) ==
    IF task.pc \in {"defer:get_user", "defer:insert"} THEN AfterDefer(task)
    ELSE Goto(task, "update", None)

\* get_or_create_user, its get_user: the row is there, or is to be inserted
GetOrCreateSelect(t) ==
    /\ tasks[t] # Idle
    /\ tasks[t].pc \in {"defer:get_user", "update:get_user"}
    /\ tasks' = [tasks EXCEPT ![t] =
                    IF get_user(users, tasks[t].user) # NoRow
                    THEN AfterGetOrCreate(tasks[t])
                    ELSE Goto(tasks[t],
                              IF tasks[t].pc = "defer:get_user" THEN "defer:insert"
                              ELSE "update:insert", None)]
    /\ UNCHANGED <<users, events, next_id, started>>
    /\ UNCHANGED <<parservars, last, view>>

\* get_or_create_user, its INSERT INTO users: the primary key refuses a
\* second row for the id, and the command ends with the exception
GetOrCreateInsert(t) ==
    /\ tasks[t] # Idle
    /\ tasks[t].pc \in {"defer:insert", "update:insert"}
    /\ IF users[tasks[t].user] # NoRow
       THEN /\ tasks' = [tasks EXCEPT ![t] = Reply(tasks[t], "IntegrityError")]
            /\ UNCHANGED users
       ELSE /\ users' = [users EXCEPT ![tasks[t].user] = User(None, PRIVATE)]
            /\ tasks' = [tasks EXCEPT ![t] = AfterGetOrCreate(tasks[t])]
    /\ UNCHANGED <<events, next_id, started>>
    /\ UNCHANGED <<parservars, last, view>>

\* update_user_privacy and update_user_timezone, their UPDATE users ...
\* WHERE discord_id = ?
Update(t) ==
    /\ tasks[t] # Idle
    /\ tasks[t].pc = "update"
    /\ users' = [users EXCEPT ![tasks[t].user] =
                    IF @ = NoRow THEN @
                    ELSE IF tasks[t].cmd = "privacy" THEN User(@.timezone, tasks[t].arg)
                    ELSE User(TzName(tasks[t].arg), @.privacy)]
    /\ tasks' = [tasks EXCEPT ![t] = Reply(tasks[t], "set")]
    /\ UNCHANGED <<events, next_id, started>>
    /\ UNCHANGED <<parservars, last, view>>

\* add_event from its get_user to the call of db.add_event: no timezone, an
\* exception of parse, a result that is not valid or no timestamp end the
\* command
AddGetUser(t) ==
    /\ tasks[t] # Idle
    /\ tasks[t].cmd = "add" /\ tasks[t].pc = "get_user"
    /\ \E user \in {get_user(users, tasks[t].user)} :
        IF user = NoRow \/ IsNone(user.timezone)
        THEN tasks' = [tasks EXCEPT ![t] =
                          Reply(tasks[t], "Please set your timezone first")]
        ELSE \E r \in {parse_and_stamp(user.timezone.zone, tasks[t].arg)} :
                tasks' = [tasks EXCEPT ![t] =
                    IF r.raised THEN Reply(tasks[t], r.exc)
                    ELSE IF ~r.parsed.is_valid THEN Reply(tasks[t], "not valid")
                    ELSE IF IsNone(r.timestamp)
                    THEN Reply(tasks[t], "Invalid date/time")
                    ELSE Goto(tasks[t], "add_event",
                              [timezone |-> user.timezone.zone,
                               timestamp |-> r.timestamp.n])]
    /\ UNCHANGED <<users, events, next_id, started>>
    /\ UNCHANGED <<parservars, last, view>>

\* db.add_event, its INSERT INTO events: the foreign key refuses an event
\* of a user without a row
AddInsert(t) ==
    /\ tasks[t] # Idle
    /\ tasks[t].cmd = "add" /\ tasks[t].pc = "add_event"
    /\ IF users[tasks[t].user] = NoRow
       THEN /\ tasks' = [tasks EXCEPT ![t] = Reply(tasks[t], "IntegrityError")]
            /\ UNCHANGED <<events, next_id>>
       ELSE /\ events' = events \cup
                    {Event(next_id, tasks[t].user, tasks[t].loc.timestamp)}
            /\ next_id' = next_id + 1
            /\ tasks' = [tasks EXCEPT ![t] =
                             Goto(tasks[t], "respond",
                                  [reply |-> "Event added!",
                                   event |-> Event(next_id, tasks[t].user,
                                                   tasks[t].loc.timestamp)])]
    /\ UNCHANGED <<users, started>>
    /\ UNCHANGED <<parservars, last, view>>

\* list_events, the privacy check on somebody else's calendar
ListGetUser(t) ==
    /\ tasks[t] # Idle
    /\ tasks[t].cmd = "list" /\ tasks[t].pc = "get_user"
    /\ \E target_user \in {get_user(users, tasks[t].arg)} :
        tasks' = [tasks EXCEPT ![t] =
            IF target_user # NoRow /\ is_private(target_user)
            THEN Reply(tasks[t], "This user's calendar is private.")
            ELSE Goto(tasks[t], "get_events", None)]
    /\ UNCHANGED <<users, events, next_id, started>>
    /\ UNCHANGED <<parservars, last, view>>

\* list_events, its get_events of the target; the task notes beside the
\* events the row of the target at this moment
ListGetEvents(t) ==
    /\ tasks[t] # Idle
    /\ tasks[t].cmd = "list" /\ tasks[t].pc = "get_events"
    /\ tasks' = [tasks EXCEPT ![t] =
                    Goto(tasks[t], "respond",
                         [reply |-> "events",
                          events |-> get_events(events, tasks[t].arg),
                          owner |-> get_user(users, tasks[t].arg)])]
    /\ UNCHANGED <<users, events, next_id, started>>
    /\ UNCHANGED <<parservars, last, view>>

\* remove_event, its get_event
RemoveGetEvent(t) ==
    /\ tasks[t] # Idle
    /\ tasks[t].cmd = "remove" /\ tasks[t].pc = "get_event"
    /\ \E found \in {get_event(events, tasks[t].arg, tasks[t].user)} :
        tasks' = [tasks EXCEPT ![t] =
            IF found = {}
            THEN Goto(tasks[t], "respond", [reply |-> "not found", returned |-> {}])
            ELSE Goto(tasks[t], "delete", [event |-> found])]
    /\ UNCHANGED <<users, events, next_id, started>>
    /\ UNCHANGED <<parservars, last, view>>

\* remove_event, its DELETE FROM events
RemoveDelete(t) ==
    /\ tasks[t] # Idle
    /\ tasks[t].cmd = "remove" /\ tasks[t].pc = "delete"
    /\ events' = delete_event(events, tasks[t].arg, tasks[t].user)
    /\ tasks' = [tasks EXCEPT ![t] =
                    Goto(tasks[t], "respond",
                         [reply |-> "Event removed", returned |-> tasks[t].loc.event])]
    /\ UNCHANGED <<users, next_id, started>>
    /\ UNCHANGED <<parservars, last, view>>

\* the reply is sent and the command is over
Respond(t) ==
    /\ tasks[t] # Idle
    /\ tasks[t].pc = "respond"
    /\ tasks' = [tasks EXCEPT ![t] = Idle]
    /\ UNCHANGED <<users, events, next_id, started>>
    /\ UNCHANGED <<parservars, last, view>>

NextBot ==
    \E t \in Tasks :
        \/ Invoke(t)
        \/ GetOrCreateSelect(t)
        \/ GetOrCreateInsert(t)
        \/ Update(t)
        \/ AddGetUser(t)
        \/ AddInsert(t)
        \/ ListGetUser(t)
        \/ ListGetEvents(t)
        \/ RemoveGetEvent(t)
        \/ RemoveDelete(t)
        \/ Respond(t)

SpecBot == InitBot /\ [][NextBot]_vars

(***************************************************************************)
(* A PaginatedView over a list of items, and the presses of its buttons by *)
(* its author and by other users.  Discord delivers no press of a button   *)
(* that is disabled.                                                       *)
(***************************************************************************)
MaxItems == 8
MaxPerPage == 3

\* PaginatedView.__init__: page 0, the items chunked by items_per_page
PaginatedView(items, author_id, items_per_page) ==
    [items |-> items, author_id |-> author_id, items_per_page |-> items_per_page,
     page |-> 0,
     pages |-> [k \in 1 .. ((Len(items) + items_per_page - 1) \div items_per_page) |->
                   SubSeq(items, (k - 1) * items_per_page + 1,
                          IF k * items_per_page < Len(items) THEN k * items_per_page
                          ELSE Len(items))]]

total_pages(v) == Len(v.pages)

current_items(v) == IF v.pages = <<>> THEN <<>> ELSE v.pages[v.page + 1]

\* previous_button.disabled and next_button.disabled
disabled(v) == Len(v.pages) <= 1

interaction_check(v, user_id) == user_id = v.author_id

previous_button(v) == [v EXCEPT !.page = (v.page - 1) % total_pages(v)]

\* next_button that stays on the last page
next_button_no_wrap(v) ==
    [v EXCEPT !.page = IF v.page + 1 < total_pages(v) THEN v.page + 1 ELSE v.page]

next_button(v) == [v EXCEPT !.page = (v.page + 1) % total_pages(v)]

InitPage ==
    /\ tz = "UTC"
    /\ clock = bot_now("UTC")
    /\ request = [year |-> None, month |-> None, day |-> None, time |-> None]
    /\ pc = "view"
    /\ result = None
    /\ readings = <<>>
    /\ stamp = None
    /\ NoBot
    /\ last = None
    /\ \E n \in 0 .. MaxItems, author_id \in UserIds, items_per_page \in 1 .. MaxPerPage :
          view = PaginatedView([i \in 1 .. n |-> i], author_id, items_per_page)

\* A user presses Previous: the callback runs if interaction_check passes
PressPrevious ==
    /\ ~disabled(view)
    /\ \E user_id \in UserIds :
        /\ view' = IF interaction_check(view, user_id) THEN previous_button(view)
                   ELSE view
        /\ last' = [op |-> "previous_button", user |-> user_id, page |-> view.page]
    /\ UNCHANGED <<parservars, botvars>>

\* A user presses Next
PressNext ==
    /\ ~disabled(view)
    /\ \E user_id \in UserIds :
        /\ view' = IF interaction_check(view, user_id) THEN next_button(view)
                   ELSE view
        /\ last' = [op |-> "next_button", user |-> user_id, page |-> view.page]
    /\ UNCHANGED <<parservars, botvars>>

NextPage == PressPrevious \/ PressNext

SpecPage == InitPage /\ [][NextPage]_vars

(***************************************************************************)
(* The repository called directly, one call after the other as its tests   *)
(* do: each call runs from its first statement to its return with no       *)
(* other call between its statements.                                      *)
(***************************************************************************)
\* calls made on the repository in one run
MaxCalls == 5

RepoTimestamps == {100, 200}

\* the users table after get_or_create_user(discord_id)
get_or_create_user(rows, discord_id) ==
    IF get_user(rows, discord_id) # NoRow THEN rows
    ELSE [rows EXCEPT ![discord_id] = User(None, PRIVATE)]

\* an UPDATE that writes the defaults into the columns it does not name
update_user_resets_others(rows, discord_id, column, value) ==
    IF rows[discord_id] = NoRow THEN rows
    ELSE [rows EXCEPT ![discord_id] =
             IF column = "timezone" THEN User(value, PRIVATE) ELSE User(None, value)]

\* UPDATE users SET column = ? WHERE discord_id = ?
update_user(rows, discord_id, column, value) ==
    IF rows[discord_id] = NoRow THEN rows
    ELSE [rows EXCEPT ![discord_id] =
             IF column = "timezone" THEN User(value, @.privacy)
             ELSE User(@.timezone, value)]

\* DELETE FROM events without its WHERE
delete_events_all(evs, user_id) == {}

\* DELETE FROM events WHERE user_id = ?
delete_events(evs, user_id) == {e \in evs : e.user_id # user_id}

\* the rows in the order of their ids
order_by_id(evs) ==
    {s \in [1 .. Cardinality(evs) -> evs] :
        \A i, j \in DOMAIN s : i < j => s[i].id < s[j].id}

\* ORDER BY timestamp ASC: the rows in an order of ascending timestamps;
\* SQL leaves the order of rows with equal timestamps open
order_by_timestamp(evs) ==
    {s \in [1 .. Cardinality(evs) -> evs] :
        /\ \A i, j \in DOMAIN s : i # j => s[i] # s[j]
        /\ \A i, j \in DOMAIN s : i < j => s[i].timestamp <= s[j].timestamp}

InitRepo ==
    /\ tz = "UTC"
    /\ clock = bot_now("UTC")
    /\ request = [year |-> None, month |-> None, day |-> None, time |-> None]
    /\ pc = "repository"
    /\ result = None
    /\ readings = <<>>
    /\ stamp = None
    /\ NoBot
    /\ last = None /\ view = None

\* a call is made and returns
Called(op, user_id, arg, ret) ==
    /\ started < MaxCalls
    /\ started' = started + 1
    /\ last' = [op |-> op, user |-> user_id, arg |-> arg, ret |-> ret]
    /\ UNCHANGED <<parservars, tasks, view>>

GetOrCreateUser(u) ==
    /\ users' = get_or_create_user(users, u)
    /\ Called("get_or_create_user", u, None, get_user(get_or_create_user(users, u), u))
    /\ UNCHANGED <<events, next_id>>

UpdateUserTimezone(u) ==
    \E zone \in all_timezones_set :
        /\ users' = update_user(get_or_create_user(users, u), u, "timezone", TzName(zone))
        /\ Called("update_user_timezone", u, TzName(zone), None)
        /\ UNCHANGED <<events, next_id>>

UpdateUserPrivacy(u) ==
    \E privacy \in PrivacySetting :
        /\ users' = update_user(get_or_create_user(users, u), u, "privacy", privacy)
        /\ Called("update_user_privacy", u, privacy, None)
        /\ UNCHANGED <<events, next_id>>

\* add_event: the foreign key refuses an event of a user without a row
AddEvent(u) ==
    \E ts \in RepoTimestamps :
        IF get_user(users, u) = NoRow
        THEN /\ Called("add_event", u, ts, Raise("IntegrityError"))
             /\ UNCHANGED <<users, events, next_id>>
        ELSE /\ events' = events \cup {Event(next_id, u, ts)}
             /\ next_id' = next_id + 1
             /\ Called("add_event", u, ts, Return(Event(next_id, u, ts)))
             /\ UNCHANGED users

GetEvents(u) ==
    /\ \E rows \in order_by_timestamp(get_events(events, u)) :
          Called("get_events", u, None, rows)
    /\ UNCHANGED <<users, events, next_id>>

RemoveEvent(u) ==
    \E event_id \in EventIds :
        /\ events' = IF get_event(events, event_id, u) = {} THEN events
                     ELSE delete_event(events, event_id, u)
        /\ Called("remove_event", u, event_id, get_event(events, event_id, u))
        /\ UNCHANGED <<users, next_id>>

\* wipe_events: the DELETE and its rowcount
WipeEvents(u) ==
    /\ events' = delete_events(events, u)
    /\ Called("wipe_events", u, None, Cardinality(events \ delete_events(events, u)))
    /\ UNCHANGED <<users, next_id>>

\* delete_user: count_events, the two DELETEs, the rowcount of the second
DeleteUser(u) ==
    /\ events' = delete_events(events, u)
    /\ users' = [users EXCEPT ![u] = NoRow]
    /\ Called("delete_user", u, None,
              <<Cardinality(get_events(events, u)), get_user(users, u) # NoRow>>)
    /\ UNCHANGED next_id

NextRepo ==
    \E u \in UserIds :
        \/ GetOrCreateUser(u)
        \/ UpdateUserTimezone(u)
        \/ UpdateUserPrivacy(u)
        \/ AddEvent(u)
        \/ GetEvents(u)
        \/ RemoveEvent(u)
        \/ WipeEvents(u)
        \/ DeleteUser(u)

SpecRepo == InitRepo /\ [][NextRepo]_vars

(***************************************************************************)
(* The commands that delete behind a confirmation dialog, /calendar wipe   *)
(* and /settings wipe, beside the commands that create what they delete.   *)
(* A dialog is a ConfirmView; any user may press its buttons while the     *)
(* command waits, and it may time out.  The view notes the presses it got. *)
(***************************************************************************)
WipeCommands ==
    [cmd : {"wipe", "wipe_data"}, arg : {None}]
    \cup [cmd : {"timezone"}, arg : {"America/New_York"}]
    \cup [cmd : {"add"},
          arg : {[year |-> None, month |-> None, day |-> None, time |-> time_23_59]}]

PyBool(b) == [t |-> "bool", b |-> b]

ConfirmView(author_id) ==
    [author_id |-> author_id, value |-> None, presses |-> {}]

\* a check that lets every user through
confirm_check_anyone(v, user_id) == TRUE

\* ConfirmView.interaction_check
confirm_check(v, user_id) == user_id = v.author_id

\* confirm_button and cancel_button
confirm_button(v) == [v EXCEPT !.value = PyBool(TRUE)]
cancel_button(v) == [v EXCEPT !.value = PyBool(FALSE)]

InvokeWipe(t) ==
    /\ tasks[t] = Idle
    /\ started < MaxCommands
    /\ \E u \in UserIds, c \in WipeCommands :
        tasks' = [tasks EXCEPT ![t] =
                     [cmd |-> c.cmd, user |-> u, arg |-> c.arg, loc |-> None,
                      pc |-> "defer:get_user"]]
    /\ started' = started + 1
    /\ UNCHANGED <<users, events, next_id>>
    /\ UNCHANGED <<parservars, last, view>>

\* wipe_data, its get_user
WipeDataGetUser(t) ==
    /\ tasks[t] # Idle
    /\ tasks[t].cmd = "wipe_data" /\ tasks[t].pc = "get_user"
    /\ tasks' = [tasks EXCEPT ![t] =
                    Goto(tasks[t], "count_events",
                         [user |-> get_user(users, tasks[t].user)])]
    /\ UNCHANGED <<users, events, next_id, started>>
    /\ UNCHANGED <<parservars, last, view>>

\* count_events and the test on it: nothing to delete ends the command,
\* anything else shows the dialog
WipeCount(t) ==
    /\ tasks[t] # Idle
    /\ tasks[t].cmd \in {"wipe", "wipe_data"} /\ tasks[t].pc = "count_events"
    /\ \E event_count \in {Cardinality(get_events(events, tasks[t].user))} :
        tasks' = [tasks EXCEPT ![t] =
            IF tasks[t].cmd = "wipe" /\ event_count = 0
            THEN Reply(tasks[t], "You don't have any events to delete.")
            ELSE IF tasks[t].cmd = "wipe_data" /\ tasks[t].loc.user = NoRow
                    /\ event_count = 0
            THEN Reply(tasks[t], "You don't have any data to delete.")
            ELSE Goto(tasks[t], "dialog",
                      [event_count |-> event_count,
                       view |-> ConfirmView(tasks[t].user)])]
    /\ UNCHANGED <<users, events, next_id, started>>
    /\ UNCHANGED <<parservars, last, view>>

\* a user presses a button of the dialog: interaction_check, then the
\* button, whose stop() ends the wait of the command
ConfirmPress(t) ==
    /\ tasks[t] # Idle
    /\ tasks[t].pc = "dialog"
    /\ \E user_id \in UserIds, button \in {"confirm", "cancel"} :
        \E v \in {[tasks[t].loc.view EXCEPT !.presses = @ \cup {<<user_id, button>>}]} :
            /\ v # tasks[t].loc.view \/ confirm_check(v, user_id)
            /\ tasks' = [tasks EXCEPT ![t] =
                  IF ~confirm_check(v, user_id)
                  THEN Goto(tasks[t], "dialog", [tasks[t].loc EXCEPT !.view = v])
                  ELSE Goto(tasks[t], "after_wait",
                            [tasks[t].loc EXCEPT !.view =
                                IF button = "confirm" THEN confirm_button(v)
                                ELSE cancel_button(v)])]
    /\ UNCHANGED <<users, events, next_id, started>>
    /\ UNCHANGED <<parservars, last, view>>

\* on_timeout
ConfirmTimeout(t) ==
    /\ tasks[t] # Idle
    /\ tasks[t].pc = "dialog"
    /\ tasks' = [tasks EXCEPT ![t] =
                    Goto(tasks[t], "after_wait",
                         [tasks[t].loc EXCEPT !.view.value = None])]
    /\ UNCHANGED <<users, events, next_id, started>>
    /\ UNCHANGED <<parservars, last, view>>

\* view.wait() has returned: the command goes by view.value
AfterWait(t) ==
    /\ tasks[t] # Idle
    /\ tasks[t].pc = "after_wait"
    /\ \E v \in {tasks[t].loc.view} :
        tasks' = [tasks EXCEPT ![t] =
            IF IsNone(v.value)
            THEN Goto(tasks[t], "respond",
                      [reply |-> "Confirmation timed out. Nothing was deleted.",
                       view |-> v])
            ELSE IF v.value.b
            THEN Goto(tasks[t],
                      IF tasks[t].cmd = "wipe" THEN "wipe_events"
                      ELSE "delete_user:count", [view |-> v])
            ELSE Goto(tasks[t], "respond",
                      [reply |-> "Operation cancelled. Nothing was deleted.",
                       view |-> v])]
    /\ UNCHANGED <<users, events, next_id, started>>
    /\ UNCHANGED <<parservars, last, view>>

\* /calendar wipe, its db.wipe_events
WipeDelete(t) ==
    /\ tasks[t] # Idle
    /\ tasks[t].cmd = "wipe" /\ tasks[t].pc = "wipe_events"
    /\ events' = delete_events(events, tasks[t].user)
    /\ tasks' = [tasks EXCEPT ![t] =
                    Goto(tasks[t], "respond",
                         [reply |-> "Deleted events.",
                          deleted |-> Cardinality(events \ delete_events(events, tasks[t].user)),
                          view |-> tasks[t].loc.view])]
    /\ UNCHANGED <<users, next_id, started>>
    /\ UNCHANGED <<parservars, last, view>>

\* /settings wipe, its db.delete_user: count_events
DeleteUserCount(t) ==
    /\ tasks[t] # Idle
    /\ tasks[t].cmd = "wipe_data" /\ tasks[t].pc = "delete_user:count"
    /\ tasks' = [tasks EXCEPT ![t] =
                    Goto(tasks[t], "delete_user:events",
                         [event_count |-> Cardinality(get_events(events, tasks[t].user)),
                          view |-> tasks[t].loc.view])]
    /\ UNCHANGED <<users, events, next_id, started>>
    /\ UNCHANGED <<parservars, last, view>>

\* db.delete_user: DELETE FROM events WHERE user_id = ?
DeleteUserEvents(t) ==
    /\ tasks[t] # Idle
    /\ tasks[t].cmd = "wipe_data" /\ tasks[t].pc = "delete_user:events"
    /\ events' = delete_events(events, tasks[t].user)
    /\ tasks' = [tasks EXCEPT ![t] = Goto(tasks[t], "delete_user:users", tasks[t].loc)]
    /\ UNCHANGED <<users, next_id, started>>
    /\ UNCHANGED <<parservars, last, view>>

\* db.delete_user: DELETE FROM users WHERE discord_id = ?, which takes the
\* events of the row with it (ON DELETE CASCADE)
DeleteUserRow(t) ==
    /\ tasks[t] # Idle
    /\ tasks[t].cmd = "wipe_data" /\ tasks[t].pc = "delete_user:users"
    /\ users' = [users EXCEPT ![tasks[t].user] = NoRow]
    /\ events' = delete_events(events, tasks[t].user)
    /\ tasks' = [tasks EXCEPT ![t] =
                    Goto(tasks[t], "respond",
                         [reply |-> "All your data has been deleted.",
                          returned |-> <<tasks[t].loc.event_count,
                                         users[tasks[t].user] # NoRow>>,
                          view |-> tasks[t].loc.view])]
    /\ UNCHANGED <<next_id, started>>
    /\ UNCHANGED <<parservars, last, view>>

NextWipe ==
    \E t \in Tasks :
        \/ InvokeWipe(t)
        \/ GetOrCreateSelect(t)
        \/ GetOrCreateInsert(t)
        \/ Update(t)
        \/ AddGetUser(t)
        \/ AddInsert(t)
        \/ WipeDataGetUser(t)
        \/ WipeCount(t)
        \/ ConfirmPress(t)
        \/ ConfirmTimeout(t)
        \/ AfterWait(t)
        \/ WipeDelete(t)
        \/ DeleteUserCount(t)
        \/ DeleteUserEvents(t)
        \/ DeleteUserRow(t)
        \/ Respond(t)

SpecWipe == InitBot /\ [][NextWipe]_vars

(***************************************************************************)
(* Properties of parse.  What a token means is read off the token itself,  *)
(* and the calendar is restated, so that the properties are checked        *)
(* against the resolvers and not by them.                                  *)
(***************************************************************************)
TimeValue(t) ==
    CASE t = time_1_15 -> <<1, 15>>
      [] t = time_10am -> <<10, 0>>
      [] t = time_12_30PM -> <<12, 30>>
      [] t = time_23_59 -> <<23, 59>>
      [] OTHER -> <<0, 0>>

MonthValue(m) ==
    CASE m = PyInt(1) -> 1
      [] m = month_February -> 2
      [] m = month_4 -> 4
      [] m = month_DEC -> 12

MonthTitle(m) ==
    CASE m = 1 -> "January"
      [] m = 2 -> "February"
      [] m = 4 -> "April"
      [] m = 12 -> "December"

DayValue(d) ==
    CASE d = PyInt(1) -> 1
      [] d = day_29 -> 29
      [] d = day_30 -> 30
      [] d = day_31 -> 31

WeekdayValue(d) ==
    CASE d = day_Monday -> 0
      [] d = day_t -> 1
      [] d = day_sun -> 6
      [] d = day_empty -> 0

LeapYear(y) == (y % 4 = 0 /\ y % 100 # 0) \/ y % 400 = 0

MonthLength(y, m) ==
    IF m = 2 THEN (IF LeapYear(y) THEN 29 ELSE 28)
    ELSE IF m \in {4, 6, 9, 11} THEN 30 ELSE 31

Done == pc = "done"
Returned == Done /\ ~result.raised
Valid == Returned /\ result.value.is_valid
Invalid == Returned /\ ~result.value.is_valid

\* the time token is absent, empty or well formed
TimeOk == request.time \notin MalformedTimes

\* the result is the valid ParsedDateTime(y, m, d, time of the request)
ResultIs(y, m, d) ==
    /\ Valid
    /\ result.value.year = y /\ result.value.month = m /\ result.value.day = d
    /\ <<result.value.hour, result.value.minute>> = TimeValue(request.time)

\* the date and time of a valid result
Resolved ==
    datetime(result.value.year, result.value.month, result.value.day,
             result.value.hour, result.value.minute)

\* the local date-time (y, m, d, time of the request) is an instant
\* strictly after the reading `now`
StrictlyAfter(y, m, d, now) ==
    utc_minutes(localize(tz, datetime(y, m, d, TimeValue(request.time)[1],
                                      TimeValue(request.time)[2])))
        > utc_minutes(now)

\* C1: every valid result has 1 <= month <= 12, 1 <= day <= the number of
\* days of its month in its year, 0 <= hour <= 23 and 0 <= minute <= 59.
C1_ValidFieldsInRange ==
    Valid =>
        /\ 1 <= result.value.month /\ result.value.month <= 12
        /\ 1 <= result.value.day
        /\ result.value.day <= MonthLength(result.value.year, result.value.month)
        /\ 0 <= result.value.hour /\ result.value.hour <= 23
        /\ 0 <= result.value.minute /\ result.value.minute <= 59

\* a valid February 29 in the last minute of the day
C1_Witness ==
    /\ Valid
    /\ result.value.month = 2 /\ result.value.day = 29
    /\ result.value.hour = 23 /\ result.value.minute = 59

\* C2: with no explicit year and at least one of month, day and time
\* supplied, the instant of a valid result is strictly after every reading
\* of the clock the call took; a result equal to now is never returned.
C2_StrictlyAfterNow ==
    (/\ Valid
     /\ IsNone(request.year)
     /\ ~IsNone(request.month) \/ ~IsNone(request.day) \/ ~IsNone(request.time))
    => \A i \in DOMAIN readings :
           utc_minutes(localize(tz, Resolved)) > utc_minutes(readings[i])

\* the requested time of day is the minute the clock shows, and the result
\* is on another day
C2_Witness ==
    /\ Valid
    /\ IsNone(request.year) /\ IsNone(request.month) /\ IsNone(request.day)
    /\ request.time = time_23_59
    /\ clock.hour = 23 /\ clock.minute = 59
    /\ result.value.day # clock.day

\* C3: parse always returns a ParsedDateTime and never raises.
C3_NeverRaises == Done => ~result.raised

\* C4: a day token that is a weekday name (with a time that is absent or
\* well formed) gives a valid date on the requested weekday, 1 to 7 days
\* after the date of the reading get_next_weekday takes and never that
\* date itself, at the parsed time, or 00:00 when the time is absent.
C4_NextWeekday ==
    (Done /\ request.day \in DayNames /\ TimeOk) =>
        /\ Valid
        /\ Len(readings) = 2
        /\ weekday(Resolved) = WeekdayValue(request.day)
        /\ toordinal(Resolved) - toordinal(readings[2]) \in 1 .. 7
        /\ <<result.value.hour, result.value.minute>> = TimeValue(request.time)

\* Sunday is asked for on a Sunday at 01:30, for 23:59: the result is the
\* Sunday a week later
C4_Witness ==
    /\ Valid
    /\ request.day = day_sun /\ request.time = time_23_59
    /\ weekday(clock) = 6 /\ clock.hour = 1
    /\ toordinal(Resolved) - toordinal(clock) = 7

\* C5 as claimed: a malformed time, day or month token makes the result
\* invalid, whatever the other components are.
C5_MalformedAlwaysInvalid ==
    (/\ Done
     /\ \/ request.time \in MalformedTimes
        \/ request.day \in MalformedDays
        \/ request.month \in MalformedMonths)
    => Invalid

\* C5 as amended: a malformed time or day token makes the result invalid
\* whatever the other components are, and so does a malformed month token
\* unless the day token is a weekday name; then the month is not examined
\* and the result is the valid next weekday.
C5_MalformedInvalidUnlessWeekday ==
    /\ (/\ Done
        /\ \/ request.time \in MalformedTimes
           \/ request.day \in MalformedDays
           \/ request.month \in MalformedMonths /\ request.day \notin DayNames)
       => Invalid
    /\ (/\ Done
        /\ request.month \in MalformedMonths
        /\ request.day \in DayNames
        /\ TimeOk)
       => Valid /\ weekday(Resolved) = WeekdayValue(request.day)

\* a malformed month beside a numeric day and a well-formed time
C5_Witness ==
    /\ Invalid
    /\ request.month \in MalformedMonths
    /\ request.day \in NumericDays
    /\ request.time \in WellFormedTimes
    /\ result.value.error_message.kind = "Invalid month"

\* C6: with year Y, month M and numeric day D all supplied, the result does
\* not depend on the clock: it is invalid, with a message naming the month
\* and D, exactly when D exceeds the days of month M in year Y, and is
\* (Y, M, D) at the parsed time otherwise, also when that is in the past.
C6_ExplicitDateTakenLiterally ==
    (/\ Done
     /\ ~IsNone(request.year)
     /\ request.month \in WellFormedMonths
     /\ request.day \in NumericDays
     /\ TimeOk)
    => LET Y == request.year.n
           M == MonthValue(request.month)
           D == DayValue(request.day)
       IN  IF D > MonthLength(Y, M)
           THEN /\ Invalid
                /\ result.value.error_message =
                       [kind |-> "Invalid date", month_name |-> MonthTitle(M), days |-> D]
           ELSE ResultIs(Y, M, D)

\* February 29 of 2023 is refused while the clock is in the leap year 2024
C6_Witness ==
    /\ Invalid
    /\ request.year = PyInt(2023)
    /\ request.month = month_February
    /\ request.day = day_29
    /\ clock.year = 2024
    /\ result.value.error_message.kind = "Invalid date"

\* C7: with month M and numeric day D supplied and no year: invalid if D
\* exceeds the days of M in now.year; otherwise the year is now.year when
\* (now.year, M, D, hour, minute) is strictly after now, and now.year + 1
\* when it is not, and then invalid if D exceeds the days of M in
\* now.year + 1; the year is never advanced by more than 1.
C7_MonthDayWithoutYear ==
    (/\ Done
     /\ IsNone(request.year)
     /\ request.month \in WellFormedMonths
     /\ request.day \in NumericDays
     /\ TimeOk)
    => LET M == MonthValue(request.month)
           D == DayValue(request.day)
       IN  IF D > MonthLength(clock.year, M) THEN Invalid
           ELSE IF StrictlyAfter(clock.year, M, D, clock) THEN ResultIs(clock.year, M, D)
           ELSE IF D > MonthLength(clock.year + 1, M) THEN Invalid
           ELSE ResultIs(clock.year + 1, M, D)

\* February 29 has passed in the leap year 2024 and rolls into 2025, which
\* has none
C7_Witness ==
    /\ Invalid
    /\ IsNone(request.year)
    /\ request.month = month_February
    /\ request.day = day_29
    /\ clock.year = 2024
    /\ result.value.error_message =
           [kind |-> "Invalid date", month_name |-> "February", year |-> 2025, days |-> 29]

\* C8: with an explicit year Y, a well-formed time and no month or day, the
\* result is January 1 of Y at that time, for every reading of the clock.
\* Y is kept to the years datetime represents, where the call returns.
C8_YearOnlyIsJanuaryFirst ==
    (/\ Done
     /\ ~IsNone(request.year)
     /\ request.year.n \in MINYEAR .. MAXYEAR
     /\ IsNone(request.month)
     /\ IsNone(request.day)
     /\ request.time \in WellFormedTimes)
    => ResultIs(request.year.n, 1, 1)

\* C9: with only a well-formed time supplied, the result is today's date
\* when (today, hour, minute) is strictly after now, and otherwise the next
\* calendar day, always at the parsed time.
C9_TimeOnly ==
    (/\ Done
     /\ IsNone(request.year) /\ IsNone(request.month) /\ IsNone(request.day)
     /\ request.time \in WellFormedTimes)
    => /\ Valid
       /\ <<result.value.hour, result.value.minute>> = TimeValue(request.time)
       /\ 1 <= result.value.day
       /\ result.value.day <= MonthLength(result.value.year, result.value.month)
       /\ IF StrictlyAfter(clock.year, clock.month, clock.day, clock)
          THEN toordinal(Resolved) = toordinal(clock)
          ELSE toordinal(Resolved) = toordinal(clock) + 1

\* the time has passed on December 31: the result is January 1 of the next
\* year
C9_Witness ==
    /\ Valid
    /\ IsNone(request.year) /\ IsNone(request.month) /\ IsNone(request.day)
    /\ request.time = time_1_15
    /\ clock.month = 12 /\ clock.day = 31
    /\ result.value.year = clock.year + 1
    /\ result.value.month = 1 /\ result.value.day = 1

\* the months from year 0 to the month of a date
MonthCount(d) == d.year * 12 + d.month - 1

\* C10: with only a numeric day D supplied (time absent or well formed),
\* parse does not fail and the result is the earliest date strictly after
\* today's whose day of the month is D, less than 12 months ahead.
C10_DayOnly ==
    (/\ Done
     /\ IsNone(request.year) /\ IsNone(request.month)
     /\ request.day \in NumericDays
     /\ TimeOk)
    => /\ Valid
       /\ result.value.day = DayValue(request.day)
       /\ result.value.day <= MonthLength(result.value.year, result.value.month)
       /\ 1 <= result.value.month /\ result.value.month <= 12
       /\ <<result.value.hour, result.value.minute>> = TimeValue(request.time)
       /\ toordinal(Resolved) > toordinal(clock)
       /\ \A mc \in MonthCount(clock) .. MonthCount(result.value) - 1 :
              \* no month before the result's has a day D after today
              ~ /\ DayValue(request.day) <= MonthLength(mc \div 12, (mc % 12) + 1)
                /\ mc = MonthCount(clock) => DayValue(request.day) > clock.day
       /\ (result.value.year - clock.year) * 12 + result.value.month - clock.month < 12

\* the 31st is asked for on January 31: February has none, the result is
\* March 31
C10_Witness ==
    /\ Valid
    /\ IsNone(request.year) /\ IsNone(request.month)
    /\ request.day = day_31
    /\ clock.month = 1 /\ clock.day = 31
    /\ result.value.year = clock.year
    /\ result.value.month = 3 /\ result.value.day = 31

\* C11: with a well-formed month M and no day (time absent or well formed),
\* the resolved day is 1 and the month M; without a year the year is
\* now.year + 1 if M <= now.month and now.year if M > now.month; a year
\* that is supplied is kept unchanged whatever the clock.
C11_MonthOnly ==
    (/\ Done
     /\ request.month \in WellFormedMonths
     /\ IsNone(request.day)
     /\ TimeOk)
    => LET M == MonthValue(request.month)
       IN  IF IsNone(request.year)
           THEN ResultIs(IF M <= clock.month THEN clock.year + 1 ELSE clock.year, M, 1)
           ELSE ResultIs(request.year.n, M, 1)

\* December is asked for in December with the year of the clock supplied:
\* the year is kept
C11_Witness ==
    /\ Valid
    /\ request.month = month_DEC /\ IsNone(request.day)
    /\ ~IsNone(request.year) /\ request.year.n = clock.year
    /\ clock.month = 12
    /\ result.value.year = clock.year /\ result.value.day = 1

\* C12: with only a well-formed month M (no day, no year; time absent or
\* well formed), the result is the earliest instant strictly after now on
\* day 1 of month M at the resolved hour and minute: it is after now, and
\* the same date a year earlier is not.
C12_MonthOnlyEarliestInstant ==
    (/\ Done
     /\ IsNone(request.year)
     /\ request.month \in WellFormedMonths
     /\ IsNone(request.day)
     /\ TimeOk)
    => LET M == MonthValue(request.month)
       IN  /\ Valid
           /\ result.value.month = M /\ result.value.day = 1
           /\ <<result.value.hour, result.value.minute>> = TimeValue(request.time)
           /\ StrictlyAfter(result.value.year, M, 1, clock)
           /\ ~StrictlyAfter(result.value.year - 1, M, 1, clock)

\* the date (today + k days, 1 <= k <= 7) that falls on the weekday w
NextOn(today, w) ==
    add_days(today, CHOOSE k \in 1 .. 7 : (weekday(today) + k) % 7 = w)

\* C13: when the day token is a weekday name and the time is absent or
\* well formed, the result is determined by the day token, the time token
\* and the clock alone: it is the same for every month and year input,
\* absent, well formed or unresolvable.
C13_WeekdayIgnoresMonthAndYear ==
    (Done /\ request.day \in DayNames /\ TimeOk) =>
        LET d == NextOn(readings[Len(readings)], WeekdayValue(request.day))
        IN  result = Return(ParsedDateTime(d.year, d.month, d.day,
                                           TimeValue(request.time)[1],
                                           TimeValue(request.time)[2]))

\* a weekday beside an unresolvable month and a year no datetime has
C13_Witness ==
    /\ Valid
    /\ request.day = day_Monday
    /\ request.month = month_sept
    /\ request.year = PyInt(99999)
    /\ request.time = time_10am
    /\ result.value.year = clock.year

\* C17: a call of parse reads the clock exactly once, in every branch.
C17_ReadsClockOnce == Done => Len(readings) = 1

\* what the claim says parse_time gives for a token of a 12-hour form
TwelveHourValue(f) ==
    IF f.h < 1 \/ f.h > 12 THEN <<PyInt(0 - 1), PyInt(0 - 1)>>
    ELSE <<PyInt(IF f.h = 12 THEN (IF lower(f.period) = <<"a", "m">> THEN 0 ELSE 12)
                 ELSE IF lower(f.period) = <<"p", "m">> THEN f.h + 12
                 ELSE f.h),
           PyInt(IF f.mm < 0 THEN 0 ELSE f.mm)>>

\* C14: for a time token in a 12-hour form (hour h, optional :MM, am or
\* pm, any letter case), parse_time reports invalid unless 1 <= h <= 12;
\* for a valid h, 12am gives 0, 12pm gives 12, any other pm hour h + 12,
\* any other am hour h, and the minute is MM, 0 when omitted.
C14_TwelveHourForms ==
    Done => \A f \in TwelveHourForms :
                request.time = PyStr(TokenOf(f)) => result.value = TwelveHourValue(f)

Stamped == pc = "stamped"

\* year, month, numeric day and time are all supplied
FullyExplicit ==
    /\ ~IsNone(request.year) /\ ~IsNone(request.month)
    /\ ~IsNone(request.day) /\ ~IsNone(request.time)

\* C15: round trip: for a fully explicit request that parse accepts and
\* to_utc_timestamp converts, the timestamp read back in the same zone has
\* exactly the year, month, day, hour and minute of the parsed result, also
\* at the daylight-saving transitions of the zone.
C15_RoundTrip ==
    (Stamped /\ FullyExplicit /\ result.value.is_valid /\ IsInt(stamp.value))
    => LET back == fromtimestamp(tz, stamp.value.n)
       IN  <<back.year, back.month, back.day, back.hour, back.minute>>
               = <<result.value.year, result.value.month, result.value.day,
                   result.value.hour, result.value.minute>>

At(t, cmd, label) == tasks[t] # Idle /\ tasks[t].cmd = cmd /\ tasks[t].pc = label

\* the list command of task t has fetched the events of somebody else
FetchedOther(t) ==
    /\ At(t, "list", "respond")
    /\ tasks[t].loc.reply = "events"
    /\ tasks[t].arg # tasks[t].user

\* C18: whenever /calendar list has fetched events of a user for another
\* user, the owner's stored privacy was public at the moment of the fetch,
\* also when the owner turns private between the privacy check and the
\* fetch.
C18_PrivateCalendarNotViewed ==
    \A t \in Tasks :
        FetchedOther(t) /\ tasks[t].loc.events # {} =>
            tasks[t].loc.owner # NoRow /\ tasks[t].loc.owner.privacy = PUBLIC

\* the step is one of the add command of task t
AddStep(t) == tasks[t] # Idle /\ tasks[t].cmd = "add" /\ tasks'[t] # tasks[t]

\* what add_event computes from the timezone it read and its arguments
Computed(t) == parse_and_stamp(tasks[t].loc.timezone, tasks[t].arg)

\* C19: a step of /calendar add changes the events table only if at least
\* one of year, month, day, time was supplied, the command read a stored
\* timezone of the invoking user, parse returned a valid result and
\* to_utc_timestamp returned a timestamp; the step then adds one event, of
\* the invoking user, with exactly that timestamp, and removes none.
C19_AddInsertsOnlyWhenResolved ==
    [][\A t \in Tasks :
          AddStep(t) /\ events' # events =>
              /\ \E f \in {"year", "month", "day", "time"} : tasks[t].arg[f] # None
              /\ tasks[t].loc.timezone \in all_timezones_set
              /\ get_user(users, tasks[t].user) # NoRow
              /\ ~Computed(t).raised
              /\ Computed(t).parsed.is_valid
              /\ IsInt(Computed(t).timestamp)
              /\ \E e \in events' :
                    /\ e \notin events
                    /\ events' = events \cup {e}
                    /\ e.user_id = tasks[t].user
                    /\ e.timestamp = Computed(t).timestamp.n]_vars

\* an add command has inserted an event of its user at 23:59 of the day,
\* New York time
C19_Witness ==
    \E t \in Tasks :
        /\ At(t, "add", "respond")
        /\ tasks[t].loc.reply = "Event added!"
        /\ tasks[t].loc.event \in events
        /\ tasks[t].loc.event.user_id = tasks[t].user
        /\ tasks[t].loc.event.timestamp =
               timestamp(aware(datetime(2024, 3, 11, 3, 59), 0))

\* the step is one of the remove command of task t
RemoveStep(t) == tasks[t] # Idle /\ tasks[t].cmd = "remove" /\ tasks'[t] # tasks[t]

\* the stored events with the id the remove command of task t names that
\* belong to its user
Owned(t) == {e \in events : e.id = tasks[t].arg /\ e.user_id = tasks[t].user}

\* C20: remove_event(event_id, user_id) goes on to delete, and returns the
\* event, if and only if its get_event finds a stored event with that id
\* that belongs to user_id; otherwise it returns None (so does get_event
\* for a user who does not own the event) and no step of it changes the
\* stored events; no step deletes an event with another id or of another
\* user, and after the delete the returned event is stored no more.
C20_RemoveEvent ==
    [][\A t \in Tasks :
          RemoveStep(t) =>
              /\ events' \subseteq events
              /\ \A e \in events \ events' :
                    e.id = tasks[t].arg /\ e.user_id = tasks[t].user
              /\ tasks[t].pc = "get_event" =>
                    /\ events' = events
                    /\ IF Owned(t) = {}
                       THEN /\ tasks'[t].pc = "respond"
                            /\ tasks'[t].loc.returned = {}
                       ELSE /\ tasks'[t].pc = "delete"
                            /\ tasks'[t].loc.event = Owned(t)
              /\ tasks[t].pc = "delete" =>
                    /\ tasks'[t].pc = "respond"
                    /\ tasks'[t].loc.returned = tasks[t].loc.event
                    /\ tasks'[t].loc.returned # {}
                    /\ tasks'[t].loc.returned \cap events' = {}]_vars

\* a remove command has deleted and returned an event of its user while
\* another event of that user stays stored
C20_Witness ==
    \E t \in Tasks :
        /\ At(t, "remove", "respond")
        /\ tasks[t].loc.reply = "Event removed"
        /\ \A e \in tasks[t].loc.returned :
              e.id = tasks[t].arg /\ e.user_id = tasks[t].user /\ e \notin events
        /\ \E e \in events : e.user_id = tasks[t].user

\* C27: for a numeric day with the month omitted, parse returns with an
\* explicit year, whichever it is, what it returns without one: the year
\* passed is discarded and the year is the one of the forward search.
C27_YearDiscardedForDayOnly ==
    Done /\ IsNone(request.month) /\ request.day \in NumericDays
         /\ ~IsNone(request.year) =>
        result = parse(tz, clock, clock, None, None, request.day,
                       request.time).outcome

\* day '31' with year 99999 on a February day resolves to March 31 of the
\* clock's year
C27_Witness ==
    /\ Done /\ IsNone(request.month) /\ request.day = day_31
    /\ request.year = PyInt(99999) /\ clock.month = 2
    /\ Valid /\ Resolved.year = clock.year /\ Resolved.month = 3 /\ Resolved.day = 31

\* the weekdays, Monday = 0, whose name starts with the first len letters
\* of the name of a form
SharedBy(f) ==
    {i \in DOMAIN DAYS_OF_WEEK :
        /\ f.len <= Len(DAYS_OF_WEEK[i])
        /\ SubSeq(DAYS_OF_WEEK[i], 1, f.len) = SubSeq(DAYS_OF_WEEK[f.name], 1, f.len)}

\* C28: a day token that is no number resolves to a weekday exactly when
\* it is a prefix of a weekday name in any letter case, and then to the
\* first such weekday from Monday to Sunday with is-weekday-name true ('t'
\* to Tuesday, 's' to Saturday, the empty str to Monday); any other token
\* is invalid, (-1, false).
C28_WeekdayPrefix ==
    Done => \A f \in DayNameForms :
                request.day = PyStr(DayTokenOf(f)) =>
                    result.value =
                        IF f.tail = <<>>
                        THEN <<PyInt((CHOOSE i \in SharedBy(f) :
                                         \A j \in SharedBy(f) : i <= j) - 1), TRUE>>
                        ELSE <<PyInt(0 - 1), FALSE>>

\* the empty str is Monday, with is-weekday-name true
C28_Witness ==
    Done /\ request.day = PyStr(<<>>) /\ result.value = <<PyInt(0), TRUE>>

\* the button the author of the view pressed last
Pressed(op) == last # None /\ last.op = op /\ last.user = view.author_id

\* C30: in a PaginatedView with at least one page, after any presses of
\* previous and next, 0 <= page < total_pages; next on the last page leads
\* to page 0 and otherwise one page on, previous on page 0 to the last
\* page and otherwise one page back; current_items is the chunk of the
\* page, of at most items_per_page items.
C30_PageInRange ==
    view.pages # <<>> =>
        /\ 0 <= view.page /\ view.page < total_pages(view)
        /\ Pressed("next_button") =>
              view.page = IF last.page = total_pages(view) - 1 THEN 0
                          ELSE last.page + 1
        /\ Pressed("previous_button") =>
              view.page = IF last.page = 0 THEN total_pages(view) - 1
                          ELSE last.page - 1
        /\ Len(current_items(view)) \in 1 .. view.items_per_page
        /\ \A i \in 1 .. Len(current_items(view)) :
              current_items(view)[i] = view.items[view.page * view.items_per_page + i]
        /\ \/ view.page = total_pages(view) - 1
           \/ Len(current_items(view)) = view.items_per_page

\* next was pressed by the author on the last of three pages, the last one
\* shorter than the others: page 0 is shown
C30_Witness ==
    /\ Pressed("next_button")
    /\ total_pages(view) = 3 /\ Len(view.pages[3]) < view.items_per_page
    /\ last.page = 2 /\ view.page = 0

(***************************************************************************)
(* Properties of the repository calls.                                     *)
(***************************************************************************)
\* the step is a call of this operation
Call(op) == started' # started /\ last'.op = op

\* the stored events of a user
EventsOf(evs, u) == {e \in evs : e.user_id = u}

\* C21: after any sequence of repository calls, delete_user(id) returns
\* the number of events id had immediately before the call and whether a
\* record for id existed; afterwards get_user(id) is None and id has no
\* events, and the records and events of every other user are unchanged.
C21_DeleteUser ==
    [][Call("delete_user") =>
          /\ last'.ret = <<Cardinality(EventsOf(events, last'.user)),
                           users[last'.user] # NoRow>>
          /\ users'[last'.user] = NoRow
          /\ EventsOf(events', last'.user) = {}
          /\ \A v \in UserIds \ {last'.user} :
                users'[v] = users[v] /\ EventsOf(events', v) = EventsOf(events, v)]_vars

\* delete_user has returned (1, True) and the other user's record is there
C21_Witness ==
    /\ last # None /\ last.op = "delete_user"
    /\ last.ret = <<1, TRUE>>
    /\ users[last.user] = NoRow
    /\ \E v \in UserIds : users[v] # NoRow

\* the row of a user before a call, with the defaults of a row that the
\* call has to create
RowOrDefault(rows, u) ==
    IF rows[u] = NoRow THEN [t |-> "User", timezone |-> None, privacy |-> "private"]
    ELSE rows[u]

C23_GetAndWipeEvents ==
    [][/\ Call("get_events") =>
             /\ {last'.ret[i] : i \in DOMAIN last'.ret} = EventsOf(events, last'.user)
             /\ Len(last'.ret) = Cardinality(EventsOf(events, last'.user))
             /\ \A i, j \in DOMAIN last'.ret :
                   i < j => last'.ret[i].timestamp <= last'.ret[j].timestamp
             /\ events' = events /\ users' = users
       /\ Call("wipe_events") =>
             /\ last'.ret = Cardinality(EventsOf(events, last'.user))
             /\ EventsOf(events', last'.user) = {}
             /\ \A v \in UserIds \ {last'.user} :
                   EventsOf(events', v) = EventsOf(events, v)
             /\ users' = users]_vars

\* get_events has returned the one event of its user while another user
\* has an event with an earlier timestamp
C23_Witness ==
    /\ last # None /\ last.op = "get_events"
    /\ Len(last.ret) = 1
    /\ \E e \in events : e.user_id # last.user /\ e.timestamp < last.ret[1].timestamp

\* get_events has returned two events, the one added later first
C23_OrderWitness ==
    /\ last # None /\ last.op = "get_events"
    /\ Len(last.ret) = 2
    /\ last.ret[1].id > last.ret[2].id
    /\ last.ret[1].timestamp < last.ret[2].timestamp

(***************************************************************************)
(* Properties of the commands that run side by side.                       *)
(***************************************************************************)
\* the step is the INSERT of the get_or_create_user call of task t
InsertStep(t) ==
    /\ tasks[t] # Idle
    /\ tasks[t].pc \in {"defer:insert", "update:insert"}
    /\ tasks'[t] # tasks[t]

\* C25: under every interleaving of get_or_create_user calls for the same
\* unknown user id every call completes without an error: the INSERT of no
\* call ends its command with an exception, and the id has a record after it.
C25_GetOrCreateCompletes ==
    [][\A t \in Tasks :
          InsertStep(t) =>
              /\ ~(tasks'[t].pc = "respond" /\ tasks'[t].loc.reply = "IntegrityError")
              /\ users'[tasks[t].user] # NoRow]_vars

\* the stored timezone of a user; no record counts as no timezone
StoredTimezone(rows, u) == IF rows[u] = NoRow THEN None ELSE rows[u].timezone

\* the step is one of a /timezone set command with a name that pytz does
\* not resolve
RejectedStep(t) ==
    /\ tasks[t] # Idle /\ tasks[t].cmd = "timezone"
    /\ tasks[t].arg \notin Zones
    /\ tasks'[t] # tasks[t]

\* C29: every user's stored timezone is unset or a name that pytz resolves:
\* /timezone set with another name stores nothing, leaves the stored
\* timezone as it is and ends with the reply that the name is invalid, and
\* the timezone /calendar add builds its DateTimeParser from is resolvable.
C29_StoredTimezoneResolvable ==
    [][/\ \A u \in UserIds :
             StoredTimezone(users', u) = None
                 \/ StoredTimezone(users', u).zone \in Zones
       /\ \A t \in Tasks :
             RejectedStep(t) =>
                 /\ StoredTimezone(users', tasks[t].user)
                        = StoredTimezone(users, tasks[t].user)
                 /\ tasks'[t] = Idle
                        \/ tasks'[t].pc \in {"defer:get_user", "defer:insert"}
                        \/ (tasks'[t].pc = "respond"
                            /\ tasks'[t].loc.reply \in {"Invalid timezone", "IntegrityError"})
       /\ \A t \in Tasks :
             tasks'[t] # Idle /\ tasks'[t].cmd = "add" /\ tasks'[t].pc = "add_event" =>
                 tasks'[t].loc.timezone \in Zones]_vars

\* /timezone set has refused a name of no zone for a user whose stored
\* timezone is still the zone set before
C29_Witness ==
    \E t \in Tasks :
        /\ At(t, "timezone", "respond")
        /\ tasks[t].arg = "Mars/Phobos"
        /\ tasks[t].loc.reply = "Invalid timezone"
        /\ users[tasks[t].user] # NoRow
        /\ users[tasks[t].user].timezone = [t |-> "str", zone |-> "America/New_York"]

(***************************************************************************)
(* Properties of the commands that ask before they delete.                 *)
(***************************************************************************)
\* the step is one of the /calendar wipe command of task t
WipeStep(t) == tasks[t] # Idle /\ tasks[t].cmd = "wipe" /\ tasks'[t] # tasks[t]

\* the user of the command has pressed this button of its dialog
AuthorPressed(task, button) == <<task.user, button>> \in task.loc.view.presses

\* C24: /calendar wipe deletes events, and only those of its user, only
\* after that user pressed confirm in its dialog; when the user pressed
\* cancel, or nobody or only other users pressed and the dialog timed out,
\* the command deletes nothing and ends with the reply that says so.
C24_WipeOnlyAfterConfirm ==
    [][\A t \in Tasks :
          WipeStep(t) =>
              /\ events' # events =>
                    /\ AuthorPressed(tasks[t], "confirm")
                    /\ \A v \in UserIds \ {tasks[t].user} :
                          EventsOf(events', v) = EventsOf(events, v)
              /\ tasks[t].pc = "after_wait" /\ ~AuthorPressed(tasks[t], "confirm") =>
                    /\ events' = events
                    /\ tasks'[t].pc = "respond"
                    /\ tasks'[t].loc.reply =
                          IF AuthorPressed(tasks[t], "cancel")
                          THEN "Operation cancelled. Nothing was deleted."
                          ELSE "Confirmation timed out. Nothing was deleted."]_vars

\* /calendar wipe has deleted an event after another user pressed confirm
\* in its dialog and then its own user did
C24_Witness ==
    \E t \in Tasks :
        /\ At(t, "wipe", "respond")
        /\ tasks[t].loc.reply = "Deleted events."
        /\ tasks[t].loc.deleted = 1
        /\ \E v \in UserIds \ {tasks[t].user} :
              <<v, "confirm">> \in tasks[t].loc.view.presses
        /\ AuthorPressed(tasks[t], "confirm")

\* C26: when the first command on a new database is /settings wipe, its
\* user has no record and no events, and the command shows no dialog.
C26_NoDialogWithoutData ==
    \A t \in Tasks :
        started = 1 /\ tasks[t] # Idle /\ tasks[t].cmd = "wipe_data" =>
            tasks[t].pc \notin {"dialog", "after_wait"}

====
